---- MODULE Spec2Model ----
(***************************************************************************)
(* rtconf: CPU-set codecs (tools.py), CPUSpec (cset.py) and the IRQ        *)
(* pin / verify / record protocol (irqs.py).                               *)
(*                                                                         *)
(* Python strings are sequences of one-character strings; Python lists are *)
(* sequences; a call that may raise returns a record whose field exc names *)
(* the exception ("None" when the call returns normally).                  *)
(***************************************************************************)
EXTENDS Integers, Sequences, FiniteSets, TLC

(***************************************************************************)
(* Bounds of the model.                                                    *)
(***************************************************************************)
\* largest CPU id in the lists given to the codecs
MaxCpuId == 10
\* longest string given to range_to_list
MaxStrLen == 5
\* longest explicit (unsorted, possibly repeating) cpu_list given to CPUSpec
MaxListLen == 3
\* masks given to the codecs are 0 .. 2^MaskBits - 1
MaskBits == 6
\* longest target list given to IRQ.set_pin_to_cpu
MaxTargetLen == 2

(***************************************************************************)
(* Python built-ins used by the codecs.                                    *)
(***************************************************************************)
DigitChars == <<"0", "1", "2", "3", "4", "5", "6", "7", "8", "9">>

HexChars == DigitChars \o <<"a", "b", "c", "d", "e", "f">>

IsDigit(c) == \E d \in 1..10 : DigitChars[d] = c

DigitVal(c) == (CHOOSE d \in 1..16 : HexChars[d] = c) - 1

RECURSIVE Pow2(_)
Pow2(n) == IF n = 0 THEN 1 ELSE 2 * Pow2(n - 1)

\* str(n) / f'{n}' of an integer
RECURSIVE IntToStr(_)
IntToStr(n) ==
    IF n < 0 THEN <<"-">> \o IntToStr(-n)
    ELSE IF n < 10 THEN <<DigitChars[n + 1]>>
    ELSE IntToStr(n \div 10) \o <<DigitChars[(n % 10) + 1]>>

\* int(tok, base) on a token made of digits of that base: the value, or
\* ValueError on the empty token and on a token holding any other character
RECURSIVE DigitsVal(_, _)
DigitsVal(tok, base) ==
    IF tok = <<>> THEN 0
    ELSE DigitsVal(SubSeq(tok, 1, Len(tok) - 1), base) * base + DigitVal(tok[Len(tok)])

IsNumeral(tok, base) ==
    /\ tok # <<>>
    /\ \A k \in 1..Len(tok) : \E d \in 1..base : HexChars[d] = tok[k]

PyInt(tok, base) ==
    IF IsNumeral(tok, base)
    THEN [exc |-> "None", val |-> DigitsVal(tok, base)]
    ELSE [exc |-> "ValueError", val |-> 0]

\* s.split(sep): the pieces of s between the occurrences of sep, '' included
RECURSIVE PySplit(_, _)
PySplit(s, sep) ==
    IF \A k \in 1..Len(s) : s[k] # sep THEN <<s>>
    ELSE LET p == CHOOSE k \in 1..Len(s) :
                      s[k] = sep /\ \A j \in 1..(k - 1) : s[j] # sep
         IN  <<SubSeq(s, 1, p - 1)>> \o PySplit(SubSeq(s, p + 1, Len(s)), sep)

\* list(range(l, h + 1))
RECURSIVE PyRange(_, _)
PyRange(l, h) == IF l > h THEN <<>> ELSE <<l>> \o PyRange(l + 1, h)

\* list.sort()
PySort(l) == SortSeq(l, LAMBDA a, b : a < b)

\* set(l)
PySet(l) == {l[k] : k \in 1..Len(l)}

(***************************************************************************)
(* tools.py: range notation                                                *)
(***************************************************************************)
\* range_token with the high end of a pair left out: range(l, h)
range_token_exclusive(token) ==
    IF \E k \in 1..Len(token) : token[k] = "-"
    THEN LET parts == PySplit(token, "-")
             ints  == [k \in 1..Len(parts) |-> PyInt(parts[k], 10)]
         IN  IF \E k \in 1..Len(parts) : ints[k].exc # "None"
             THEN [exc |-> "ValueError", val |-> <<>>]
             ELSE IF Len(parts) # 2
             THEN [exc |-> "ValueError", val |-> <<>>]
             ELSE IF ~(ints[1].val <= ints[2].val)
             THEN [exc |-> "AssertionError", val |-> <<>>]
             ELSE [exc |-> "None", val |-> PyRange(ints[1].val, ints[2].val - 1)]
    ELSE LET i == PyInt(token, 10)
         IN  IF i.exc # "None" THEN [exc |-> i.exc, val |-> <<>>]
             ELSE [exc |-> "None", val |-> <<i.val>>]

\* one token of range_to_list: the integers it adds, or the exception
range_token(token) ==
    IF \E k \in 1..Len(token) : token[k] = "-"
    THEN LET parts == PySplit(token, "-")
             ints  == [k \in 1..Len(parts) |-> PyInt(parts[k], 10)]
         IN  IF \E k \in 1..Len(parts) : ints[k].exc # "None"
             THEN [exc |-> "ValueError", val |-> <<>>]
             ELSE IF Len(parts) # 2
             THEN [exc |-> "ValueError", val |-> <<>>]
             ELSE IF ~(ints[1].val <= ints[2].val)
             THEN [exc |-> "AssertionError", val |-> <<>>]
             ELSE [exc |-> "None", val |-> PyRange(ints[1].val, ints[2].val)]
    ELSE LET i == PyInt(token, 10)
         IN  IF i.exc # "None" THEN [exc |-> i.exc, val |-> <<>>]
             ELSE [exc |-> "None", val |-> <<i.val>>]

RECURSIVE range_tokens(_, _)
range_tokens(tokens, int_list) ==
    IF tokens = <<>> THEN [exc |-> "None", val |-> int_list]
    ELSE LET r == range_token(Head(tokens))
         IN  IF r.exc # "None" THEN r
             ELSE range_tokens(Tail(tokens), int_list \o r.val)

range_to_list(range_str) ==
    IF Len(range_str) = 0 THEN [exc |-> "None", val |-> <<>>]
    ELSE range_tokens(PySplit(range_str, ","), <<>>)

\* range_loop extending a run from its first element: c == pending[0] + 1
RECURSIVE range_loop_from_first(_, _, _)
range_loop_from_first(rest, pending, s) ==
    IF rest = <<>> THEN [pending |-> pending, s |-> s]
    ELSE LET c == Head(rest)
         IN  IF Len(pending) = 0
             THEN range_loop_from_first(Tail(rest), <<c>>, s)
             ELSE IF c = pending[1] + 1
             THEN range_loop_from_first(Tail(rest), Append(pending, c), s)
             ELSE IF Len(pending) = 1
             THEN range_loop_from_first(Tail(rest), <<c>>,
                             s \o <<",">> \o IntToStr(pending[1]))
             ELSE range_loop_from_first(Tail(rest), <<c>>,
                             s \o <<",">> \o IntToStr(pending[1]) \o <<"-">>
                               \o IntToStr(pending[Len(pending)]))

\* the loop of list_to_range_notation over cpu_list + [-1]:
\* the final pending list and the string built so far
RECURSIVE range_loop(_, _, _)
range_loop(rest, pending, s) ==
    IF rest = <<>> THEN [pending |-> pending, s |-> s]
    ELSE LET c == Head(rest)
         IN  IF Len(pending) = 0
             THEN range_loop(Tail(rest), <<c>>, s)
             ELSE IF c = pending[Len(pending)] + 1
             THEN range_loop(Tail(rest), Append(pending, c), s)
             ELSE IF Len(pending) = 1
             THEN range_loop(Tail(rest), <<c>>,
                             s \o <<",">> \o IntToStr(pending[1]))
             ELSE range_loop(Tail(rest), <<c>>,
                             s \o <<",">> \o IntToStr(pending[1]) \o <<"-">>
                               \o IntToStr(pending[Len(pending)]))

\* the assertion 'pending == [-1]' that ends list_to_range_notation
range_notation_asserts(cpu_list) ==
    range_loop(PySort(cpu_list) \o <<-1>>, <<>>, <<>>).pending = <<-1>>

\* list_to_range_notation returning s with its leading comma
list_to_range_notation_keeps_comma(cpu_list) ==
    range_loop(PySort(cpu_list) \o <<-1>>, <<>>, <<>>).s

\* the string list_to_range_notation returns (s[1:])
list_to_range_notation(cpu_list) ==
    LET s == range_loop(PySort(cpu_list) \o <<-1>>, <<>>, <<>>).s
    IN  IF s = <<>> THEN <<>> ELSE Tail(s)

(***************************************************************************)
(* tools.py: masks                                                         *)
(***************************************************************************)
\* int(maskstr.replace(',', ''), 16)
maskstr_to_int(maskstr) ==
    DigitsVal(SelectSeq(maskstr, LAMBDA c : c # ","), 16)

RECURSIVE mask_loop(_, _, _)
mask_loop(mask, cc, int_list) ==
    IF mask > 0
    THEN mask_loop(mask \div 2, cc + 1,
                   IF mask % 2 = 1 THEN Append(int_list, cc) ELSE int_list)
    ELSE int_list

\* mask_to_list counting the CPUs from 1
mask_to_list_from_one(mask) == mask_loop(mask, 1, <<>>)

mask_to_list(mask) == mask_loop(mask, 0, <<>>)

\* the assertion 'mask >= 0' that opens mask_to_list
mask_to_list_asserts(mask) == mask >= 0

\* mask |= 1 << cc
BitOr(mask, cc) ==
    IF (mask \div Pow2(cc)) % 2 = 1 THEN mask ELSE mask + Pow2(cc)

RECURSIVE list_to_mask(_)
list_to_mask(cpu_list) ==
    IF cpu_list = <<>> THEN 0
    ELSE BitOr(list_to_mask(SubSeq(cpu_list, 1, Len(cpu_list) - 1)),
               cpu_list[Len(cpu_list)])

(***************************************************************************)
(* State.                                                                  *)
(*   pc, inp, out : a codec call chain: its position, its input and the    *)
(*                  values the calls returned                              *)
(*   cs_args, cspec : the keyword arguments of a CPUSpec(...) call and the *)
(*                  object (or exception) it produced                      *)
(*   uid          : os.getuid() of the process (0 is root)                 *)
(*   irq          : the IRQ objects, by IRQ id                             *)
(*   kern         : what the kernel holds for /proc/irq/<id>               *)
(*   call         : the last call made and what it returned                *)
(*   kt           : the KThread objects, by pid                            *)
(*   proc         : what the OS holds for the threads and the cpusets      *)
(*   devs         : the PCIDevice objects of the discovery pass            *)
(*   edt          : the EDTObject bundles constructed                      *)
(***************************************************************************)
VARIABLES pc, inp, out, cs_args, cspec, uid, irq, kern, call, kt, proc, devs, edt

codec_vars == <<pc, inp, out>>

cset_vars == <<cs_args, cspec>>

irq_vars == <<uid, irq, kern, call>>

sys_vars == <<kt, proc, devs, edt>>

(***************************************************************************)
(* Input domains.                                                          *)
(***************************************************************************)
RECURSIVE SetToSortedSeq(_)
SetToSortedSeq(S) ==
    IF S = {} THEN <<>>
    ELSE LET m == CHOOSE x \in S : \A y \in S : x <= y
         IN  <<m>> \o SetToSortedSeq(S \ {m})

\* all sequences over S of length at most n
SeqsUpTo(S, n) == UNION {[1..k -> S] : k \in 0..n}

\* sorted lists without repetition
SortedUniqueLists == {SetToSortedSeq(S) : S \in SUBSET (0..MaxCpuId)}

\* the characters the strings given to range_to_list are made of
RangeChars == {"0", "1", "2", "3", "-", ","}

\* the decimal numerals of a string: what is left between its '-' and ','
Numerals(s) ==
    LET toks == PySplit(s, ",")
    IN  UNION {PySet(PySplit(toks[k], "-")) : k \in 1..Len(toks)} \ {<<>>}

\* the strings whose numerals are CPU ids of the model
RangeStrings ==
    {s \in SeqsUpTo(RangeChars, MaxStrLen) :
        \A n \in Numerals(s) : DigitsVal(n, 10) <= MaxCpuId}

Masks == 0..(Pow2(MaskBits) - 1)

NoValue == [exc |-> "None", val |-> <<>>]

NoOut == [str |-> <<>>, parsed |-> NoValue, list |-> <<>>, mask |-> 0]

NoInput == [kind |-> "none", list |-> <<>>, str |-> <<>>, mask |-> 0]

IsCodecInput(i) ==
    \/ \E l \in SortedUniqueLists :
          i = [kind |-> "list", list |-> l, str |-> <<>>, mask |-> 0]
    \/ \E s \in RangeStrings :
          i = [kind |-> "str", list |-> <<>>, str |-> s, mask |-> 0]
    \/ \E m \in Masks :
          i = [kind |-> "mask", list |-> <<>>, str |-> <<>>, mask |-> m]

NoArgs == [supplied |-> {}, str_spec |-> <<>>, cpu_list |-> <<>>, mask |-> 0,
           mem_list |-> <<>>]

NoSpec == [pc |-> "none", exc |-> "None", name |-> "", cpu_list |-> <<>>, mask |-> 0,
           has_mem |-> FALSE, mem_list |-> <<>>]

NoCall == [op |-> "none", irq |-> 0, cpu_list |-> <<>>, relax |-> FALSE,
           exc |-> "None", ret |-> <<>>, effective |-> <<>>, content |-> <<>>,
           wrote |-> FALSE, readback |-> FALSE, policy_error |-> FALSE,
           reported |-> {}, repeat |-> FALSE,
           kt |-> 0, set |-> "", steps |-> <<>>, rc |-> 0, logged |-> FALSE,
           bundle |-> [irq |-> -1, kthread |-> 0, pci_device |-> <<>>],
           prio |-> -1, kt_ret |-> <<>>, kthreads |-> <<>>, fresh |-> FALSE,
           time |-> 0, counts |-> <<>>, snapshot |-> <<>>, sampled |-> {},
           updated |-> {}, before |-> <<>>, irqs |-> <<>>, attempted |-> <<>>]

\* no IRQ object exists
IrqIdle ==
    /\ uid = 0
    /\ irq = <<>>
    /\ kern = <<>>
    /\ call = NoCall

\* no thread, device or bundle object exists
SysIdle ==
    /\ kt = <<>>
    /\ proc = <<>>
    /\ devs = <<>>
    /\ edt = <<>>

(***************************************************************************)
(* The codec call chains.                                                  *)
(***************************************************************************)
InitCodec ==
    /\ pc = "start"
    /\ IsCodecInput(inp)
    /\ out = NoOut
    /\ cs_args = NoArgs
    /\ cspec = NoSpec
    /\ IrqIdle
    /\ SysIdle

\* s = list_to_range_notation(L)
Serialize ==
    /\ pc = "start" /\ inp.kind = "list"
    /\ range_notation_asserts(inp.list)
    /\ out' = [out EXCEPT !.str = list_to_range_notation(inp.list)]
    /\ pc' = "serialized"
    /\ UNCHANGED <<inp, cs_args, cspec, irq_vars, sys_vars>>

\* range_to_list(s) of the string just produced
ParseBack ==
    /\ pc = "serialized"
    /\ out' = [out EXCEPT !.parsed = range_to_list(out.str)]
    /\ pc' = "done"
    /\ UNCHANGED <<inp, cs_args, cspec, irq_vars, sys_vars>>

\* L = range_to_list(s)
Parse ==
    /\ pc = "start" /\ inp.kind = "str"
    /\ out' = [out EXCEPT !.parsed = range_to_list(inp.str)]
    /\ pc' = "parsed"
    /\ UNCHANGED <<inp, cs_args, cspec, irq_vars, sys_vars>>

\* list_to_range_notation(L) of the list just parsed
Reserialize ==
    /\ pc = "parsed" /\ out.parsed.exc = "None"
    /\ range_notation_asserts(out.parsed.val)
    /\ out' = [out EXCEPT !.str = list_to_range_notation(out.parsed.val)]
    /\ pc' = "done"
    /\ UNCHANGED <<inp, cs_args, cspec, irq_vars, sys_vars>>

\* L = mask_to_list(m)
MaskToList ==
    /\ pc = "start" /\ inp.kind = "mask"
    /\ mask_to_list_asserts(inp.mask)
    /\ out' = [out EXCEPT !.list = mask_to_list(inp.mask)]
    /\ pc' = "listed"
    /\ UNCHANGED <<inp, cs_args, cspec, irq_vars, sys_vars>>

\* list_to_mask(L) of the list just produced
ListToMaskBack ==
    /\ pc = "listed"
    /\ out' = [out EXCEPT !.mask = list_to_mask(out.list)]
    /\ pc' = "done"
    /\ UNCHANGED <<inp, cs_args, cspec, irq_vars, sys_vars>>

\* list_to_mask(L) of a given list
ListToMask ==
    /\ pc = "start" /\ inp.kind = "list"
    /\ out' = [out EXCEPT !.mask = list_to_mask(inp.list)]
    /\ pc' = "masked"
    /\ UNCHANGED <<inp, cs_args, cspec, irq_vars, sys_vars>>

NextCodec ==
    \/ Serialize
    \/ ParseBack
    \/ Parse
    \/ Reserialize
    \/ MaskToList
    \/ ListToMaskBack
    \/ ListToMask

vars == <<pc, inp, out, cs_args, cspec, uid, irq, kern, call, kt, proc, devs, edt>>

SpecCodec == InitCodec /\ [][NextCodec]_vars

(***************************************************************************)
(* cset.py: CPUSpec                                                        *)
(***************************************************************************)
\* the list CPUSpec.__init__ takes its CPUs from (lines 34-39)
CPUSpec_source(args) ==
    IF "str_spec" \in args.supplied THEN range_to_list(args.str_spec)
    ELSE IF "mask" \in args.supplied
    THEN IF mask_to_list_asserts(args.mask)
         THEN [exc |-> "None", val |-> mask_to_list(args.mask)]
         ELSE [exc |-> "AssertionError", val |-> <<>>]
    ELSE IF "cpu_list" \in args.supplied
    THEN [exc |-> "None", val |-> args.cpu_list]
    ELSE [exc |-> "AssertionError", val |-> <<>>]

CPUSpec_raised(exc) == [NoSpec EXCEPT !.pc = "raised", !.exc = exc]

\* CPUSpec.__init__ asserting only that something was supplied
CPUSpec_init_at_least_one(name, args) ==
    IF ~(Cardinality({"str_spec", "cpu_list", "mask"} \ args.supplied) <= 2)
    THEN CPUSpec_raised("AssertionError")
    ELSE LET src == CPUSpec_source(args)
         IN  IF src.exc # "None" THEN CPUSpec_raised(src.exc)
             ELSE [pc |-> "constructed", exc |-> "None", name |-> name,
                   cpu_list |-> PySort(src.val),
                   mask |-> list_to_mask(PySort(src.val)),
                   has_mem |-> "mem_list" \in args.supplied,
                   mem_list |-> args.mem_list]

\* CPUSpec.__init__: the object, or the exception raised
CPUSpec_init(name, args) ==
    IF Cardinality({"str_spec", "cpu_list", "mask"} \ args.supplied) # 2
    THEN CPUSpec_raised("AssertionError")
    ELSE LET src == CPUSpec_source(args)
         IN  IF src.exc # "None" THEN CPUSpec_raised(src.exc)
             ELSE [pc |-> "constructed", exc |-> "None", name |-> name,
                   cpu_list |-> PySort(src.val),
                   mask |-> list_to_mask(PySort(src.val)),
                   has_mem |-> "mem_list" \in args.supplied,
                   mem_list |-> args.mem_list]

\* CPUSpec.get_str
CPUSpec_get_str(cs) == list_to_range_notation(cs.cpu_list)

\* explicit lists: any order, repetitions allowed
ExplicitLists == SeqsUpTo(0..MaxCpuId, MaxListLen)

MakeArgs(supplied, s, l, m) ==
    [supplied |-> supplied, str_spec |-> s, cpu_list |-> l, mask |-> m,
     mem_list |-> IF "mem_list" \in supplied THEN <<0>> ELSE <<>>]

\* the keyword arguments of a call: with exactly one of str_spec, cpu_list
\* and mask given it ranges over the whole domain; line 30 reads of the
\* others only whether they are None, so they take two sample values each
IsCPUSpecArgs(args) ==
    LET mem(S) == {S, S \cup {"mem_list"}}
    IN  \/ \E S \in mem({"str_spec"}), s \in RangeStrings :
              args = MakeArgs(S, s, <<>>, 0)
        \/ \E S \in mem({"cpu_list"}), l \in ExplicitLists :
              args = MakeArgs(S, <<>>, l, 0)
        \/ \E S \in mem({"mask"}), m \in Masks \cup {-1} :
              args = MakeArgs(S, <<>>, <<>>, m)
        \/ \E S \in {T \in SUBSET {"str_spec", "cpu_list", "mask", "mem_list"} :
                        Cardinality(T \ {"mem_list"}) # 1} :
              \E s \in {<<>>, <<"0">>}, l \in {<<>>, <<0>>}, m \in {0, 1} :
                  args = MakeArgs(S,
                                  IF "str_spec" \in S THEN s ELSE <<>>,
                                  IF "cpu_list" \in S THEN l ELSE <<>>,
                                  IF "mask" \in S THEN m ELSE 0)

InitCPUSpec ==
    /\ pc = "cset"
    /\ inp = NoInput
    /\ out = NoOut
    /\ IsCPUSpecArgs(cs_args)
    /\ cspec = NoSpec
    /\ IrqIdle
    /\ SysIdle

\* cs = CPUSpec('cs', **cs_args)
Construct ==
    /\ cspec.pc = "none"
    /\ cspec' = CPUSpec_init("cs", cs_args)
    /\ UNCHANGED <<pc, inp, out, cs_args, irq_vars, sys_vars>>

\* cs.get_str()
GetStr ==
    /\ cspec.pc = "constructed"
    /\ range_notation_asserts(cspec.cpu_list)
    /\ out' = [out EXCEPT !.str = CPUSpec_get_str(cspec)]
    /\ cspec' = [cspec EXCEPT !.pc = "printed", !.cpu_list = PySort(cspec.cpu_list)]
    /\ UNCHANGED <<pc, inp, cs_args, irq_vars, sys_vars>>

NextCPUSpec ==
    \/ Construct
    \/ GetStr

SpecCPUSpec == InitCPUSpec /\ [][NextCPUSpec]_vars

(***************************************************************************)
(* tools.py: the system constants read on import.                          *)
(***************************************************************************)
\* os.cpu_count()
CPU_COUNT == 10

ALL_CPUS == 0..(CPU_COUNT - 1)

\* parse_numa_info(): two NUMA nodes, node 0 with CPUs 0-3
NUMA_CPULIST == <<0..3, 4..(CPU_COUNT - 1)>>

\* NUMA_CPULIST[node] for node >= 0
numa_cpus(node) == NUMA_CPULIST[node + 1]

\* exception classes that 'except OSError' catches
IsOSError(exc) == exc \in {"OSError", "FileNotFoundError", "PermissionError"}

(***************************************************************************)
(* The kernel side of /proc/irq/<id>.                                      *)
(***************************************************************************)
\* mask printed in hexadecimal on width digits, in comma-separated groups of 8
RECURSIVE ToHex(_, _)
ToHex(mask, width) ==
    IF width = 0 THEN <<>>
    ELSE ToHex(mask \div 16, width - 1) \o <<HexChars[(mask % 16) + 1]>>

RECURSIVE KernelMaskStr(_, _)
KernelMaskStr(mask, width) ==
    IF width <= 8 THEN ToHex(mask, width)
    ELSE KernelMaskStr(mask \div Pow2(32), width - 8) \o <<",">>
           \o ToHex(mask % Pow2(32), 8)

\* the text of smp_affinity and of effective_affinity
smp_affinity_file(k) == KernelMaskStr(k.smp_affinity, (CPU_COUNT + 3) \div 4)

\* the kernel routes the interrupt to the first CPU of its affinity
KernelEffective(mask) ==
    IF mask = 0 THEN 0 ELSE Pow2(mask_to_list(mask)[1])

effective_affinity_file(k) ==
    KernelMaskStr(KernelEffective(k.smp_affinity), (CPU_COUNT + 3) \div 4)

\* write(2) of a CPU list to smp_affinity_list: the kernel parses the list,
\* refuses a CPU it does not have and an interrupt it cannot move, and
\* otherwise takes the list as the new affinity
KernelWrite(k, content) ==
    LET cpus == PySet(range_to_list(content).val)
    IN  IF ~k.exists THEN [exc |-> "FileNotFoundError", kern |-> k]
        ELSE IF range_to_list(content).exc # "None" \/ cpus = {}
                  \/ ~(cpus \subseteq ALL_CPUS) \/ ~k.movable
        THEN [exc |-> "OSError", kern |-> k]
        ELSE [exc |-> "None",
              kern |-> [k EXCEPT !.smp_affinity = list_to_mask(SetToSortedSeq(cpus))]]

(***************************************************************************)
(* tools.py: procfs_write, and irqs.py: IRQ                                *)
(***************************************************************************)
\* tools.procfs_write under root_decorator: f.write(content) returns
\* len(content), the kernel sees the text when the file is closed
procfs_write(k, content, euid) ==
    IF euid # 0 THEN [exc |-> "PermissionError", kern |-> k]
    ELSE IF ~k.exists THEN [exc |-> "FileNotFoundError", kern |-> k]
    ELSE IF Len(content) <= 0 THEN [exc |-> "ProcfsWriteError", kern |-> k]
    ELSE KernelWrite(k, content)

\* IRQ.refresh_contents: the object with its fields re-read, or the exception
refresh_contents(self, k) ==
    IF ~k.exists THEN [exc |-> "FileNotFoundError", self |-> self]
    ELSE [exc |-> "None",
          self |-> [self EXCEPT
              !._smp_affinity = maskstr_to_int(smp_affinity_file(k)),
              !._smp_affinity_list = mask_to_list(maskstr_to_int(smp_affinity_file(k))),
              !._eff_affinity = maskstr_to_int(effective_affinity_file(k)),
              !._eff_affinity_list =
                  mask_to_list(maskstr_to_int(effective_affinity_file(k))),
              !._count = k.count,
              !._unhandled = k.unhandled,
              !._last_unhandled_ms = k.last_unhandled_ms]]

\* a float holding the quotient num / den of two integers, kept in lowest
\* terms; den = 0 is what IEEE division by zero gives: 1/0 inf, -1/0 -inf,
\* 0/0 nan
RECURSIVE Gcd(_, _)
Gcd(a, b) == IF b = 0 THEN a ELSE Gcd(b, a % b)

Abs(n) == IF n < 0 THEN -n ELSE n

Sign(n) == IF n < 0 THEN -1 ELSE IF n > 0 THEN 1 ELSE 0

FloatDiv(n, d) ==
    IF d = 0 THEN [num |-> Sign(n), den |-> 0]
    ELSE LET g == Gcd(Abs(n), Abs(d))
         IN  [num |-> Sign(d) * (n \div g), den |-> Abs(d) \div g]

\* np.zeros(tl.CPU_COUNT, np.int64) and np.zeros(tl.CPU_COUNT, np.float64)
np_zeros_int == [c \in 1..CPU_COUNT |-> 0]

np_zeros_float == [c \in 1..CPU_COUNT |-> FloatDiv(0, 1)]

\* no PCIDevice (None); devices are referred to by their pci_addr
NoDevice == <<>>

\* no KThread (None); threads are referred to by their pid
NoThread == 0

\* IRQ.__init__
IRQ_new(id, k) ==
    refresh_contents(
        [id |-> id, _smp_affinity |-> 0, _smp_affinity_list |-> <<>>,
         _eff_affinity |-> 0, _eff_affinity_list |-> <<>>,
         best_node |-> -2, pci_device |-> NoDevice, kthread |-> NoThread,
         _count |-> 0, _unhandled |-> 0, _last_unhandled_ms |-> 0,
         _counts |-> np_zeros_int, _counts_time |-> 0,
         _counts_hz |-> np_zeros_float,
         was_pinned_successfully_once |-> FALSE], k).self

\* IRQ.register_pci_device
register_pci_device(self, dev) ==
    [self EXCEPT !.pci_device = dev.pci_addr, !.best_node = dev.numa_node]

\* IRQ.register_kthread
register_kthread(self, pid) == [self EXCEPT !.kthread = pid]

\* the CPUs local to a device of a node: every CPU for node -1
node_cpu_set(node) == IF node < 0 THEN ALL_CPUS ELSE NUMA_CPULIST[node + 1]

\* PCIDevice(pci_addr, irq_type, irq_list, cpu_set, numa_node) as
\* init_pci_objects builds it
PCIDevice(pci_addr, irq_list, node) ==
    [pci_addr |-> pci_addr, irq_list |-> irq_list,
     cpu_set |-> node_cpu_set(node), numa_node |-> node]

\* the bus address of the device of the pin protocol
PinDeviceAddr == <<"0", "0", "0", "0", ":", "0", "1", ":", "0", "0", ".", "0">>

\* IRQ.__init__ followed by register_pci_device when a device claims the IRQ
IRQ_init(id, k, node) ==
    IF node = -2 THEN IRQ_new(id, k)
    ELSE register_pci_device(IRQ_new(id, k), PCIDevice(PinDeviceAddr, <<id>>, node))

\* get_pin_to_cpu handing out the list it held before the refresh
get_pin_to_cpu_stale(self, k) ==
    LET r == refresh_contents(self, k)
    IN  [exc |-> r.exc, self |-> r.self, ret |-> self._smp_affinity_list]

\* IRQ.get_pin_to_cpu
get_pin_to_cpu(self, k) ==
    LET r == refresh_contents(self, k)
    IN  [exc |-> r.exc, self |-> r.self, ret |-> r.self._smp_affinity_list]

\* the effective target with the relaxation flag ignored
effective_target_always_relaxed(self, cpu_list, numaify_subset_ok) ==
    IF self.best_node >= 0
    THEN IF ~(PySet(cpu_list) \subseteq numa_cpus(self.best_node))
         THEN SelectSeq(cpu_list, LAMBDA c : c \in numa_cpus(self.best_node))
         ELSE cpu_list
    ELSE cpu_list

\* cpu_list_effective of set_pin_to_cpu (lines 126-142)
effective_target(self, cpu_list, numaify_subset_ok) ==
    IF self.best_node >= 0
    THEN IF ~(PySet(cpu_list) \subseteq numa_cpus(self.best_node))
         THEN IF numaify_subset_ok
              THEN SelectSeq(cpu_list, LAMBDA c : c \in numa_cpus(self.best_node))
              ELSE cpu_list
         ELSE cpu_list
    ELSE cpu_list

\* the logg.error of line 140: a pin outside the preferred node, not relaxed
policy_violation(self, cpu_list, numaify_subset_ok) ==
    /\ self.best_node >= 0
    /\ ~(PySet(cpu_list) \subseteq numa_cpus(self.best_node))
    /\ ~numaify_subset_ok

\* the verification asking only that the affinity covers the target
pin_verified_superset(pinned, cpu_list, cpu_list_effective) ==
    PySet(cpu_list_effective) \subseteq PySet(pinned)

\* the verification of line 154
pin_verified(pinned, cpu_list, cpu_list_effective) ==
    PySet(pinned) = PySet(cpu_list_effective)

\* a flag that follows the last comparison
pin_flag_tracks_last(flag, verified) == verified

\* was_pinned_successfully_once after lines 154-155
pin_flag(flag, verified) == IF verified THEN TRUE ELSE flag

\* IRQ.set_pin_to_cpu under root_decorator: the exception or the returned
\* list, the object and the kernel afterwards, and what was handed to the
\* kernel.  The logging of line 121 sorts the caller's list in place.
set_pin_to_cpu(self, k, cpu_list, numaify_subset_ok, euid) ==
    LET none   == [exc |-> "None", ret |-> <<>>, self |-> self, kern |-> k,
                   cpu_list |-> cpu_list, effective |-> <<>>, content |-> <<>>,
                   wrote |-> FALSE, readback |-> FALSE, policy_error |-> FALSE]
        sorted == PySort(cpu_list)
        eff    == PySort(effective_target(self, sorted, numaify_subset_ok))
        text   == list_to_range_notation(eff)
        w      == procfs_write(k, text, euid)
        g      == get_pin_to_cpu(self, w.kern)
        tried  == [none EXCEPT !.cpu_list = sorted, !.effective = eff,
                               !.content = text, !.wrote = TRUE,
                               !.policy_error =
                                   policy_violation(self, sorted, numaify_subset_ok),
                               !.kern = w.kern]
    IN  IF euid # 0 THEN [none EXCEPT !.exc = "PermissionError"]
        ELSE IF ~range_notation_asserts(cpu_list)
        THEN [none EXCEPT !.exc = "AssertionError", !.cpu_list = sorted]
        ELSE IF ~(Len(sorted) > 0)
        THEN [none EXCEPT !.exc = "AssertionError", !.cpu_list = sorted]
        ELSE IF w.exc # "None" /\ ~IsOSError(w.exc)
        THEN [tried EXCEPT !.exc = w.exc]
        ELSE IF g.exc # "None"
        THEN [tried EXCEPT !.exc = g.exc]
        ELSE [tried EXCEPT
                 !.ret = g.ret,
                 !.readback = TRUE,
                 !.self = [g.self EXCEPT !.was_pinned_successfully_once =
                              pin_flag(self.was_pinned_successfully_once,
                                       pin_verified(g.ret, sorted, eff))]]

\* the IRQs irq_summary logs as untouched
irq_summary(irqs) == {i \in DOMAIN irqs : ~irqs[i].was_pinned_successfully_once}

(***************************************************************************)
(* The IRQ pin protocol as a state machine.                                *)
(***************************************************************************)
IrqIds == {42}

\* the CPUs callers name in their targets: one of node 0, one of node 1 and
\* one the machine does not have
TargetCPUs == {1, CPU_COUNT - 1, CPU_COUNT}

\* the target of the NUMA relaxation example
ExampleTarget == <<1, 2, CPU_COUNT - 1>>

TargetLists == SeqsUpTo(TargetCPUs, MaxTargetLen) \cup {ExampleTarget}

\* the affinity of an IRQ nobody has pinned: every CPU
InitialAffinities == {list_to_mask(SetToSortedSeq(ALL_CPUS))}

\* preferred nodes: -2 unknown, -1 spans all, else a node index
BestNodes == {-2, -1} \cup {n - 1 : n \in 1..Len(NUMA_CPULIST)}

InitIRQ ==
    /\ pc = "irq"
    /\ inp = NoInput
    /\ out = NoOut
    /\ cs_args = NoArgs
    /\ cspec = NoSpec
    /\ SysIdle
    /\ uid \in {0, 1000}
    /\ kern \in [IrqIds -> [exists : {TRUE}, smp_affinity : InitialAffinities,
                            movable : BOOLEAN, count : {0}, unhandled : {0},
                            last_unhandled_ms : {0}]]
    /\ \E nodes \in [IrqIds -> BestNodes] :
           irq = [i \in IrqIds |-> IRQ_init(i, kern[i], nodes[i])]
    /\ call = NoCall

\* irq[i].set_pin_to_cpu(cpu_list, numaify_subset_ok=relax); call.repeat tells
\* that the call before was the same pin
PinIRQ(i, cpu_list, relax) ==
    \E r \in {set_pin_to_cpu(irq[i], kern[i], cpu_list, relax, uid)} :
        /\ irq' = [irq EXCEPT ![i] = r.self]
        /\ kern' = [kern EXCEPT ![i] = r.kern]
        /\ call' = [NoCall EXCEPT !.op = "pin", !.irq = i, !.cpu_list = cpu_list,
                       !.relax = relax, !.exc = r.exc, !.ret = r.ret,
                       !.effective = r.effective, !.content = r.content,
                       !.wrote = r.wrote, !.readback = r.readback,
                       !.policy_error = r.policy_error,
                       !.repeat = /\ call.op = "pin" /\ call.irq = i
                                  /\ call.cpu_list = cpu_list
                                  /\ call.relax = relax]
        /\ UNCHANGED <<codec_vars, cset_vars, sys_vars, uid>>

\* irq[i].get_pin_to_cpu()
GetPinIRQ(i) ==
    \E r \in {get_pin_to_cpu(irq[i], kern[i])} :
        /\ irq' = [irq EXCEPT ![i] = r.self]
        /\ call' = [NoCall EXCEPT !.op = "get", !.irq = i, !.exc = r.exc,
                       !.ret = IF r.exc = "None" THEN r.ret ELSE <<>>,
                       !.readback = r.exc = "None"]
        /\ UNCHANGED <<codec_vars, cset_vars, sys_vars, uid, kern>>

\* irq_summary(irqs)
IrqSummary ==
    /\ call' = [NoCall EXCEPT !.op = "summary", !.reported = irq_summary(irq)]
    /\ UNCHANGED <<codec_vars, cset_vars, sys_vars, uid, irq, kern>>

\* another writer (irqbalance, an operator) sets the affinity of the IRQ
OtherWriter(i) ==
    /\ kern[i].exists
    /\ \E m \in InitialAffinities :
           /\ m # kern[i].smp_affinity
           /\ kern' = [kern EXCEPT ![i].smp_affinity = m]
    /\ call' = [NoCall EXCEPT !.op = "other", !.irq = i]
    /\ UNCHANGED <<codec_vars, cset_vars, sys_vars, uid, irq>>

\* the interrupt goes away (its driver is unloaded)
IrqVanish(i) ==
    /\ kern[i].exists
    /\ kern' = [kern EXCEPT ![i].exists = FALSE]
    /\ call' = [NoCall EXCEPT !.op = "other", !.irq = i]
    /\ UNCHANGED <<codec_vars, cset_vars, sys_vars, uid, irq>>

Next ==
    \/ \E i \in IrqIds, l \in TargetLists, relax \in BOOLEAN : PinIRQ(i, l, relax)
    \/ \E i \in IrqIds : GetPinIRQ(i)
    \/ IrqSummary
    \/ \E i \in IrqIds : OtherWriter(i)
    \/ \E i \in IrqIds : IrqVanish(i)

Spec == InitIRQ /\ [][Next]_vars

(***************************************************************************)
(* The OS side of a thread: /proc/<pid>, its affinity, its cpuset and its  *)
(* scheduling policy; and the cpusets the kernel holds, by name.           *)
(*   proc.th[pid]  : [alive, movable, affinity, cpuset, rtprio, sched]     *)
(*   proc.csets    : name -> CPUs, for the cpusets that exist              *)
(*   proc.time     : the clock, as time.time() reads it                    *)
(***************************************************************************)
\* /proc/<pid>/sched of a thread that has not run: the counters
\* refresh_contents reads
NoSched ==
    [runtime |-> 0, migrations |-> 0, nr_sw |-> 0, nr_sw_vol |-> 0,
     nr_sw_unvol |-> 0]

\* the thread is gone
OsKill(os, pid) == [os EXCEPT !.th[pid].alive = FALSE]

\* the OS gives the process id of a thread that is gone to a new process,
\* which starts in the root cpuset on every CPU: os.kill(pid, 0) succeeds
\* again
OsPidReuse(os, pid, movable) ==
    [os EXCEPT !.th[pid] = [alive |-> TRUE, movable |-> movable,
                            affinity |-> ALL_CPUS, cpuset |-> "root",
                            rtprio |-> 0, sched |-> NoSched]]

\* 'cset proc -k -m --force <pid> <name>' of the cpuset library: no such
\* cpuset is an exception of the library; a thread that is gone or that the
\* kernel does not let move stays where it is, and the library raises or
\* only reports it (raises tells which); otherwise the thread joins the
\* cpuset and the kernel gives it the CPUs of that cpuset
OsCsetMove(os, pid, name, raises) ==
    IF name \notin DOMAIN os.csets
    THEN [exc |-> "CpusetException", os |-> os]
    ELSE IF ~os.th[pid].alive \/ ~os.th[pid].movable
    THEN [exc |-> IF raises THEN "CpusetException" ELSE "None", os |-> os]
    ELSE [exc |-> "None",
          os |-> [os EXCEPT !.th[pid].cpuset = name,
                            !.th[pid].affinity = os.csets[name]]]

\* 'taskset -pc <list> <pid>': the return code and the OS afterwards.  With
\* an empty list the command line has no list and taskset only prints the
\* affinity; the kernel keeps of the list the CPUs of the thread's cpuset
\* and refuses when none is left
OsTaskset(os, pid, list_str) ==
    LET parsed == range_to_list(list_str)
        cpus   == PySet(parsed.val) \cap os.csets[os.th[pid].cpuset]
    IN  IF ~os.th[pid].alive THEN [rc |-> 1, os |-> os]
        ELSE IF list_str = <<>> THEN [rc |-> 0, os |-> os]
        ELSE IF parsed.exc # "None" \/ ~os.th[pid].movable \/ cpus = {}
        THEN [rc |-> 1, os |-> os]
        ELSE [rc |-> 0, os |-> [os EXCEPT !.th[pid].affinity = cpus]]

\* 'chrt -f -p <rtprio> <pid>'
OsChrtFifo(os, pid, rtprio) ==
    IF os.th[pid].alive /\ rtprio \in 1..99
    THEN [os EXCEPT !.th[pid].rtprio = rtprio]
    ELSE os

(***************************************************************************)
(* tools.py: cset_proc_call, and kthread.py: KThread                       *)
(***************************************************************************)
\* no IRQ (None): _irq_number and _irq_obj of a thread without interrupt
NoIrq == -1

\* tools.cset_proc_call under root_decorator
cset_proc_call(os, pid, name, euid, raises) ==
    IF euid # 0 THEN [exc |-> "PermissionError", os |-> os]
    ELSE OsCsetMove(os, pid, name, raises)

\* KThreadTypeEnum(value), with _missing_ giving OTHER
KThreadTypeNames ==
    {<<"k", "w", "o", "r", "k", "e", "r">>, <<"i", "r", "q">>,
     <<"r", "c", "u", "b">>, <<"r", "c", "u", "c">>,
     <<"r", "c", "u", "o", "g">>, <<"r", "c", "u", "o", "p">>,
     <<"k", "s", "o", "f", "t", "i", "r", "q", "d">>,
     <<"m", "i", "g", "r", "a", "t", "i", "o", "n">>,
     <<"i", "r", "q", "_", "w", "o", "r", "k">>,
     <<"i", "d", "l", "e", "_", "i", "n", "j", "e", "c", "t">>,
     <<"c", "p", "u", "h", "p">>, <<"p", "r">>,
     <<"n", "v", "i", "d", "i", "a", "-", "m", "o", "d", "e", "s", "e", "t">>,
     <<"j", "b", "d", "2">>, <<"o", "t", "h", "e", "r">>}

KThreadTypeEnum(value) ==
    IF value \in KThreadTypeNames THEN value ELSE <<"o", "t", "h", "e", "r">>

RcuTypes ==
    {<<"r", "c", "u", "c">>, <<"r", "c", "u", "o", "g">>,
     <<"r", "c", "u", "b">>, <<"r", "c", "u", "o", "p">>}

\* an alive() that asks the OS every time
KThread_alive_asks_os(self, os) ==
    IF ~os.th[self.pid].alive
    THEN [ret |-> FALSE, self |-> [self EXCEPT !._alive = FALSE]]
    ELSE [ret |-> TRUE, self |-> self]

\* KThread.alive: the answer and the object afterwards
KThread_alive(self, os) ==
    IF ~self._alive THEN [ret |-> FALSE, self |-> self]
    ELSE IF ~os.th[self.pid].alive
    THEN [ret |-> FALSE, self |-> [self EXCEPT !._alive = FALSE]]
    ELSE [ret |-> TRUE, self |-> self]

\* KThread.refresh_contents: /proc/<pid>/comm, cpuset and sched re-read (the
\* model keeps no _comm); each counter of sched is stored with its
\* difference from the value stored before, and the time of the call with
\* its difference from _dt_last_contents (line 163); the files of a thread
\* that is gone do not exist
KThread_refresh_contents(self, os) ==
    IF ~os.th[self.pid].alive THEN [exc |-> "FileNotFoundError", self |-> self]
    ELSE LET sched    == os.th[self.pid].sched
             time_now == os.time
         IN  [exc |-> "None",
              self |-> [self EXCEPT
                  !._cpuset = IF os.th[self.pid].cpuset = "root" THEN ""
                              ELSE os.th[self.pid].cpuset,
                  !._runtime_incr = sched.runtime - self._runtime,
                  !._runtime = sched.runtime,
                  !._migrations_incr = sched.migrations - self._migrations,
                  !._migrations = sched.migrations,
                  !._nr_sw_incr = sched.nr_sw - self._nr_sw,
                  !._nr_sw = sched.nr_sw,
                  !._nr_sw_vol_incr = sched.nr_sw_vol - self._nr_sw_vol,
                  !._nr_sw_vol = sched.nr_sw_vol,
                  !._nr_sw_unvol_incr = sched.nr_sw_unvol - self._nr_sw_unvol,
                  !._nr_sw_unvol = sched.nr_sw_unvol,
                  !._dt_last_contents = time_now - self._dt_last_contents,
                  !._time_last_contents = time_now]]

\* KThread.__init__: the object, or the exception raised
KThread_init(pid, name, os) ==
    LET slashsplit == PySplit(SubSeq(name, 2, Len(name) - 1), "/")
        type == IF \E k \in 1..Len(name) : name[k] = "/"
                THEN KThreadTypeEnum(slashsplit[1])
                ELSE <<"o", "t", "h", "e", "r">>
        numtok == IF Len(slashsplit) > 1 THEN PySplit(slashsplit[2], "-")[1]
                  ELSE <<>>
        rcutok == IF Len(slashsplit) > 1 THEN slashsplit[2] ELSE <<>>
        obj == [pid |-> pid, name |-> name, _alive |-> os.th[pid].alive,
                kthread_type |-> type,
                _irq_number |-> IF type = <<"i", "r", "q">>
                                THEN PyInt(numtok, 10).val ELSE NoIrq,
                _irq_obj |-> NoIrq,
                _is_rcu |-> type \in RcuTypes,
                _rcuc_cpu |-> IF type \in RcuTypes
                              THEN PyInt(rcutok, 10).val ELSE NoIrq,
                was_cset_successfully_once |-> FALSE,
                _cpuset |-> "",
                _runtime |-> 0, _runtime_incr |-> 0,
                _migrations |-> 0, _migrations_incr |-> 0,
                _nr_sw |-> 0, _nr_sw_incr |-> 0,
                _nr_sw_vol |-> 0, _nr_sw_vol_incr |-> 0,
                _nr_sw_unvol |-> 0, _nr_sw_unvol_incr |-> 0,
                _dt_last_contents |-> 0, _time_last_contents |-> 0]
    IN  IF (type = <<"i", "r", "q">> \/ type \in RcuTypes) /\ ~(Len(slashsplit) > 1)
        THEN [exc |-> "AssertionError", self |-> obj]
        ELSE IF type = <<"i", "r", "q">> /\ PyInt(numtok, 10).exc # "None"
        THEN [exc |-> PyInt(numtok, 10).exc, self |-> obj]
        ELSE IF type \in RcuTypes /\ PyInt(rcutok, 10).exc # "None"
        THEN [exc |-> PyInt(rcutok, 10).exc, self |-> obj]
        ELSE KThread_refresh_contents(obj, os)

\* KThread.register_interrupt
register_interrupt(self, irq_id) == [self EXCEPT !._irq_obj = irq_id]

\* KThread.get_taskset: the CPUSpec of the affinity the OS reports, an empty
\* one for a thread that is gone, and the object afterwards
get_taskset(self, os) ==
    LET gone     == ~os.th[self.pid].alive
        affinity == IF gone THEN {} ELSE os.th[self.pid].affinity
    IN  [self |-> IF gone THEN [self EXCEPT !._alive = FALSE] ELSE self,
         ret |-> CPUSpec_init("kt_anon",
                     MakeArgs({"cpu_list"}, <<>>, SetToSortedSeq(affinity), 0))]

\* KThread.pin_taskset under root_decorator: a non-zero return code is
\* logged and nothing else
pin_taskset(self, taskset, os, euid) ==
    IF euid # 0 THEN [exc |-> "PermissionError", os |-> os, rc |-> 0, cmd |-> <<>>]
    ELSE IF ~range_notation_asserts(taskset.cpu_list)
    THEN [exc |-> "AssertionError", os |-> os, rc |-> 0, cmd |-> <<>>]
    ELSE LET r == OsTaskset(os, self.pid, CPUSpec_get_str(taskset))
         IN  [exc |-> "None", os |-> r.os, rc |-> r.rc,
              cmd |-> CPUSpec_get_str(taskset)]

\* KThread.chrt_ff under root_decorator
chrt_ff(self, rtprio, os, euid) ==
    IF euid # 0 THEN [exc |-> "PermissionError", os |-> os]
    ELSE [exc |-> "None", os |-> OsChrtFifo(os, self.pid, rtprio)]

\* one external step of a call, as the OS sees it
OsStep(cmd, set, cpus) == [cmd |-> cmd, set |-> set, cpus |-> cpus]

\* the verification accepting an affinity inside the target
cset_verified_subset(now_cpu_list, cpu_list) ==
    PySet(now_cpu_list) \subseteq PySet(cpu_list)

\* the verification of pin_cset, line 228
cset_verified(now_cpu_list, cpu_list) == PySet(now_cpu_list) = PySet(cpu_list)

\* the statements of pin_cset with the affinity set after the cpuset moves
pin_cset_order_taskset_last ==
    <<"cset_root", "cset_target", "pin_taskset", "refresh_contents", "get_taskset">>

\* the statements of pin_cset, lines 218-227, in program order
pin_cset_order ==
    <<"cset_root", "pin_taskset", "cset_target", "refresh_contents", "get_taskset">>

\* one statement of pin_cset run on st, the state of the call so far
pin_cset_step(st, stmt) ==
    CASE stmt = "cset_root" ->
           LET r == cset_proc_call(st.os, st.self.pid, "root", st.euid, st.raises)
           IN  [st EXCEPT !.exc = r.exc, !.os = r.os,
                          !.steps = Append(@, OsStep("cset", "root", <<>>))]
      [] stmt = "pin_taskset" ->
           LET r == pin_taskset(st.self, st.cpuset, st.os, st.euid)
           IN  [st EXCEPT !.exc = r.exc, !.os = r.os, !.rc = r.rc,
                          !.steps = Append(@, OsStep("taskset", "", r.cmd))]
      [] stmt = "cset_target" ->
           LET r == cset_proc_call(st.os, st.self.pid, st.cpuset.name, st.euid,
                                   st.raises)
           IN  [st EXCEPT !.exc = r.exc, !.os = r.os,
                          !.steps = Append(@, OsStep("cset", st.cpuset.name, <<>>))]
      [] stmt = "refresh_contents" ->
           LET r == KThread_refresh_contents(st.self, st.os)
           IN  [st EXCEPT !.exc = r.exc, !.self = r.self,
                          !.steps = Append(@, OsStep("procfs_read", "", <<>>))]
      [] stmt = "get_taskset" ->
           LET r == get_taskset(st.self, st.os)
           IN  [st EXCEPT !.self = r.self, !.now = r.ret.cpu_list, !.read = TRUE,
                          !.steps = Append(@, OsStep("sched_getaffinity", "", <<>>))]

\* the statements todo run one after the other, up to the first that
\* raises; the thread goes away before statement number st.dies (0: never)
RECURSIVE pin_cset_run(_, _, _)
pin_cset_run(st, todo, n) ==
    CHOOSE r \in
        {IF todo = <<>> \/ s.exc # "None" THEN s
         ELSE pin_cset_run(
                  pin_cset_step(IF s.dies = n
                                THEN [s EXCEPT !.os = OsKill(s.os, s.self.pid)]
                                ELSE s,
                                Head(todo)),
                  Tail(todo), n + 1) : s \in {st}} : TRUE

\* KThread.pin_cset under root_decorator: the exception if any, the object
\* and the OS afterwards, the external steps taken, the affinity read back
\* and whether the mismatch was logged
pin_cset(self, cpuset, os, euid, dies, raises) ==
    LET st0 == [exc |-> "None", self |-> self, os |-> os, euid |-> euid,
                cpuset |-> [cpuset EXCEPT !.cpu_list = PySort(cpuset.cpu_list)],
                dies |-> dies, raises |-> raises, steps |-> <<>>, rc |-> 0,
                now |-> <<>>, read |-> FALSE, logged |-> FALSE]
    IN  IF euid # 0 THEN [st0 EXCEPT !.exc = "PermissionError", !.cpuset = cpuset]
        ELSE IF ~range_notation_asserts(cpuset.cpu_list)
        THEN [st0 EXCEPT !.exc = "AssertionError"]
        ELSE \* lines 218-227, then the comparison of lines 228-234
             CHOOSE r \in
                 {IF st.exc # "None" THEN st
                  ELSE IF cset_verified(st.now, st.cpuset.cpu_list)
                  THEN [st EXCEPT !.self.was_cset_successfully_once = TRUE]
                  ELSE [st EXCEPT !.logged = TRUE] :
                      st \in {pin_cset_run(st0, pin_cset_order, 1)}} : TRUE

(***************************************************************************)
(* The thread pin protocol as a state machine.                             *)
(***************************************************************************)
KtPids == {77}

\* ps prints the thread of the interrupt as [irq/42-edt]
IrqThreadName == <<"[", "i", "r", "q", "/", "4", "2", "-", "e", "d", "t", "]">>

\* the CPUs of the cpuset 'rt' in the kernel
RtCpusetCPUs == {{1}, {CPU_COUNT - 1}, {1, CPU_COUNT - 1}}

\* the cpusets callers name: 'rt' exists, 'ghost' does not
CpusetNames == {"rt", "ghost"}

\* the CPUs of the CPUSpec objects given to pin_cset
KtTargetCPUs == {1, CPU_COUNT - 1}

KtTargets ==
    {CPUSpec_init(n, MakeArgs({"cpu_list"}, <<>>, l, 0)) :
        n \in CpusetNames, l \in SeqsUpTo(KtTargetCPUs, MaxTargetLen)}

\* the statements of pin_cset before which the thread may go away
DiesAt == 0..Len(pin_cset_order)

\* the OS with the threads of KtPids alive in the root cpuset
IsInitialOs(os) ==
    \E mv \in [KtPids -> BOOLEAN], rt \in RtCpusetCPUs :
        os = [th |-> [p \in KtPids |->
                         [alive |-> TRUE, movable |-> mv[p], affinity |-> ALL_CPUS,
                          cpuset |-> "root", rtprio |-> 0, sched |-> NoSched]],
              csets |-> [n \in {"root", "rt"} |->
                            IF n = "root" THEN ALL_CPUS ELSE rt],
              time |-> 0]

InitKThread ==
    /\ pc = "kthread"
    /\ inp = NoInput
    /\ out = NoOut
    /\ cs_args = NoArgs
    /\ cspec = NoSpec
    /\ uid \in {0, 1000}
    /\ irq = <<>>
    /\ kern = <<>>
    /\ IsInitialOs(proc)
    /\ kt = [p \in KtPids |-> KThread_init(p, IrqThreadName, proc).self]
    /\ devs = <<>>
    /\ edt = <<>>
    /\ call = NoCall

\* kt[k].pin_cset(cpuset); the thread goes away before statement dies, and
\* the cpuset library raises (or not) when it cannot move the thread
PinCset(k, cpuset, dies, raises) ==
    /\ raises => (dies # 0 \/ ~proc.th[k].alive \/ ~proc.th[k].movable)
    /\ \E r \in {pin_cset(kt[k], cpuset, proc, uid, dies, raises)} :
        /\ kt' = [kt EXCEPT ![k] = r.self]
        /\ proc' = r.os
        /\ call' = [NoCall EXCEPT !.op = "pin_cset", !.kt = k,
                       !.cpu_list = cpuset.cpu_list, !.set = cpuset.name,
                       !.exc = r.exc, !.ret = r.now, !.readback = r.read,
                       !.steps = r.steps, !.rc = r.rc, !.logged = r.logged]
    /\ UNCHANGED <<codec_vars, cset_vars, uid, irq, kern, devs, edt>>

\* kt[k].get_taskset()
GetTaskset(k) ==
    \E r \in {get_taskset(kt[k], proc)} :
        /\ kt' = [kt EXCEPT ![k] = r.self]
        /\ call' = [NoCall EXCEPT !.op = "get_taskset", !.kt = k,
                       !.ret = r.ret.cpu_list, !.readback = TRUE]
        /\ UNCHANGED <<codec_vars, cset_vars, uid, irq, kern, proc, devs, edt>>

\* kt[k].alive()
KtAlive(k) ==
    \E r \in {KThread_alive(kt[k], proc)} :
        /\ kt' = [kt EXCEPT ![k] = r.self]
        /\ call' = [NoCall EXCEPT !.op = "alive", !.kt = k, !.readback = r.ret]
        /\ UNCHANGED <<codec_vars, cset_vars, uid, irq, kern, proc, devs, edt>>

\* the thread goes away between two calls
ThreadDies(k) ==
    /\ proc.th[k].alive
    /\ proc' = OsKill(proc, k)
    /\ call' = [NoCall EXCEPT !.op = "other", !.kt = k]
    /\ UNCHANGED <<codec_vars, cset_vars, uid, irq, kern, kt, devs, edt>>

\* the process id of a thread that is gone is given to a new process
PidReused(k) ==
    /\ ~proc.th[k].alive
    /\ \E mv \in BOOLEAN : proc' = OsPidReuse(proc, k, mv)
    /\ call' = [NoCall EXCEPT !.op = "other", !.kt = k]
    /\ UNCHANGED <<codec_vars, cset_vars, uid, irq, kern, kt, devs, edt>>

NextKThread ==
    \/ \E k \in KtPids, c \in KtTargets, d \in DiesAt, r \in BOOLEAN :
           PinCset(k, c, d, r)
    \/ \E k \in KtPids : GetTaskset(k)
    \/ \E k \in KtPids : KtAlive(k)
    \/ \E k \in KtPids : ThreadDies(k)
    \/ \E k \in KtPids : PidReused(k)

SpecKThread == InitKThread /\ [][NextKThread]_vars

(***************************************************************************)
(* meta_obj.py: EDTObject, the bundle of one IRQ, one thread and one PCI   *)
(* device.  A bundle holds its IRQ by id, its thread by pid and its device *)
(* by address.                                                             *)
(***************************************************************************)
\* v bound to the value of x in F: x is evaluated once
With(x, F(_)) == CHOOSE r \in {F(v) : v \in {x}} : TRUE

\* list[i] of Python: a negative index counts from the end
PyIndex(list, i) ==
    IF 0 <= i /\ i < Len(list) THEN [exc |-> "None", val |-> list[i + 1]]
    ELSE IF i < 0 /\ -i <= Len(list)
    THEN [exc |-> "None", val |-> list[Len(list) + i + 1]]
    ELSE [exc |-> "IndexError", val |-> {}]

NoBundle == [irq |-> NoIrq, kthread |-> NoThread, pci_device |-> NoDevice]

\* EDTObject.__init__(irq=..., kthread=...): None is NoIrq and NoThread; the
\* bundle, or the exception raised
EDTObject_init(irq_arg, kthread_arg, irqs, kts) ==
    LET found ==
            IF irq_arg # NoIrq
            THEN IF irqs[irq_arg].kthread = NoThread
                 THEN [exc |-> "AssertionError", self |-> NoBundle]
                 ELSE [exc |-> "None",
                       self |-> [NoBundle EXCEPT !.irq = irq_arg,
                                                 !.kthread = irqs[irq_arg].kthread]]
            ELSE IF kthread_arg # NoThread
            THEN IF kts[kthread_arg]._irq_obj = NoIrq
                 THEN [exc |-> "AssertionError", self |-> NoBundle]
                 ELSE [exc |-> "None",
                       self |-> [NoBundle EXCEPT !.kthread = kthread_arg,
                                                 !.irq = kts[kthread_arg]._irq_obj]]
            ELSE [exc |-> "ValueError", self |-> NoBundle]
    IN  IF found.exc # "None" THEN found
        ELSE IF irqs[found.self.irq].pci_device = NoDevice
        THEN [exc |-> "AssertionError", self |-> NoBundle]
        ELSE [exc |-> "None",
              self |-> [found.self EXCEPT
                           !.pci_device = irqs[found.self.irq].pci_device]]

\* the assertion of bind_to_cset asking for a target that is not empty
bind_target_nonempty(cpu_list) == Len(cpu_list) >= 1

\* the assertion of bind_to_cset, line 52
bind_target_ok(cpu_list) == Len(cpu_list) = 1

\* the NUMA test of bind_to_cset accepting a CPU of any node
numa_check_any_node(cpu, best_node) ==
    With(PyIndex(NUMA_CPULIST, best_node), LAMBDA n :
        [exc |-> n.exc, ok |-> n.exc = "None" /\ cpu \in ALL_CPUS])

\* 'cpu in tl.NUMA_CPULIST[self.irq.best_node]', line 56
numa_check(cpu, best_node) ==
    With(PyIndex(NUMA_CPULIST, best_node), LAMBDA n :
        [exc |-> n.exc, ok |-> n.exc = "None" /\ cpu \in n.val])

\* ktprio = None
NoPrio == -1

\* the external steps of one set_pin_to_cpu call
pin_steps(r) ==
    (IF r.wrote THEN <<OsStep("procfs_write", "", r.content)>> ELSE <<>>)
        \o (IF r.readback THEN <<OsStep("procfs_read", "", <<>>)>> ELSE <<>>)

\* the postcondition of bind_to_cset asserted on the IRQ alone
bind_postcondition_irq_only(irq_cpulist, kt_cpulist, cpu) ==
    Len(irq_cpulist) = 1 /\ irq_cpulist[1] = cpu

\* the two assertions that end bind_to_cset, lines 70-71
bind_postcondition(irq_cpulist, kt_cpulist, cpu) ==
    /\ Len(irq_cpulist) = 1 /\ irq_cpulist[1] = cpu
    /\ Len(kt_cpulist) = 1 /\ kt_cpulist[1] = cpu

\* lines 64-71 of bind_to_cset: the priority, the two re-reads and the
\* assertions on them; the thread goes away before the last re-read when
\* st.dies says so
bind_verify(st, cpu, ktprio, euid) ==
    With(IF ktprio # NoPrio THEN chrt_ff(st.kt, ktprio, st.os, euid)
         ELSE [exc |-> "None", os |-> st.os], LAMBDA c :
    IF c.exc # "None" THEN [st EXCEPT !.exc = c.exc]
    ELSE
    With(get_pin_to_cpu(st.irq, st.kern), LAMBDA g :
    IF g.exc # "None"
    THEN [st EXCEPT !.exc = g.exc, !.os = c.os,
                    !.steps = @ \o (IF ktprio # NoPrio
                                    THEN <<OsStep("chrt", "", <<>>)>> ELSE <<>>)]
    ELSE
    With(get_taskset(st.kt, IF st.dies = Len(pin_cset_order) + 1
                            THEN OsKill(c.os, st.kt.pid) ELSE c.os), LAMBDA k :
    [st EXCEPT
        !.irq = g.self,
        !.kt = k.self,
        !.os = IF st.dies = Len(pin_cset_order) + 1
               THEN OsKill(c.os, st.kt.pid) ELSE c.os,
        !.steps = @ \o (IF ktprio # NoPrio
                        THEN <<OsStep("chrt", "", <<>>)>> ELSE <<>>)
                    \o <<OsStep("procfs_read", "", <<>>),
                         OsStep("sched_getaffinity", "", <<>>)>>,
        !.irq_cpulist = g.ret,
        !.kt_cpulist = k.ret.cpu_list,
        !.verified = TRUE,
        !.exc = IF bind_postcondition(g.ret, k.ret.cpu_list, cpu)
                THEN "None" ELSE "AssertionError"])))

\* EDTObject.bind_to_cset(cset, ktprio): the exception if any, the IRQ, the
\* thread, the kernel and the OS afterwards, the external steps taken and
\* the two lists re-read at the end
bind_to_cset(self, cset, ktprio, irq_obj, k, kt_obj, os, euid, dies, raises) ==
    LET sorted == [cset EXCEPT !.cpu_list = PySort(cset.cpu_list)]
        st0 == [exc |-> "None", irq |-> irq_obj, kern |-> k, kt |-> kt_obj,
                os |-> os, steps |-> <<>>, dies |-> dies, cset |-> sorted,
                irq_cpulist |-> <<>>, kt_cpulist |-> <<>>, verified |-> FALSE]
    IN  IF ~range_notation_asserts(cset.cpu_list)
        THEN [st0 EXCEPT !.exc = "AssertionError"]
        ELSE IF ~bind_target_ok(sorted.cpu_list)
        THEN [st0 EXCEPT !.exc = "AssertionError"]
        ELSE
        With(numa_check(sorted.cpu_list[1], irq_obj.best_node), LAMBDA n :
        IF n.exc # "None" THEN [st0 EXCEPT !.exc = n.exc]
        ELSE IF ~n.ok THEN [st0 EXCEPT !.exc = "RuntimeError"]
        ELSE
        With(set_pin_to_cpu(irq_obj, k, sorted.cpu_list, FALSE, euid), LAMBDA p :
        IF p.exc # "None"
        THEN [st0 EXCEPT !.exc = p.exc, !.irq = p.self, !.kern = p.kern,
                         !.steps = pin_steps(p)]
        ELSE
        With(pin_cset(kt_obj, sorted, os, euid, dies, raises), LAMBDA c :
        IF c.exc # "None"
        THEN [st0 EXCEPT !.exc = c.exc, !.irq = p.self, !.kern = p.kern,
                         !.kt = c.self, !.os = c.os,
                         !.steps = pin_steps(p) \o c.steps]
        ELSE bind_verify([st0 EXCEPT !.irq = p.self, !.kern = p.kern,
                                     !.kt = c.self, !.os = c.os,
                                     !.steps = pin_steps(p) \o c.steps],
                         sorted.cpu_list[1], ktprio, euid))))

(***************************************************************************)
(* The composite bind as a state machine: one IRQ, its thread and its      *)
(* device, correlated; bundles are constructed and bound.                  *)
(***************************************************************************)
\* the CPUs bundles are bound to: one of each node
EdtCPUs == {1, CPU_COUNT - 1}

\* the CPUSpec objects given to bind_to_cset, all naming the cpuset 'rt'
EdtTargets ==
    {CPUSpec_init("rt", MakeArgs({"cpu_list"}, <<>>, l, 0)) :
        l \in SeqsUpTo(EdtCPUs, MaxTargetLen)}

\* the priorities given to bind_to_cset
EdtPrios == {NoPrio, 50}

\* the nodes of the device of the bundle: spanning all nodes, or one node
EdtNodes == BestNodes \ {-2}

InitEDT ==
    /\ pc = "edt"
    /\ inp = NoInput
    /\ out = NoOut
    /\ cs_args = NoArgs
    /\ cspec = NoSpec
    /\ uid \in {0, 1000}
    /\ kern \in [IrqIds -> [exists : {TRUE}, smp_affinity : InitialAffinities,
                            movable : BOOLEAN, count : {0}, unhandled : {0},
                            last_unhandled_ms : {0}]]
    /\ IsInitialOs(proc)
    /\ \E node \in EdtNodes, k \in KtPids :
           /\ devs = <<PCIDevice(PinDeviceAddr, SetToSortedSeq(IrqIds), node)>>
           /\ irq = [i \in IrqIds |->
                        register_kthread(IRQ_init(i, kern[i], node), k)]
           /\ kt = [p \in KtPids |->
                       register_interrupt(KThread_init(p, IrqThreadName, proc).self,
                                          CHOOSE i \in IrqIds : TRUE)]
    /\ edt = {}
    /\ call = NoCall

\* EDTObject(irq=irq_arg, kthread=kthread_arg)
NewEDT(irq_arg, kthread_arg) ==
    \E r \in {EDTObject_init(irq_arg, kthread_arg, irq, kt)} :
        /\ edt' = IF r.exc = "None" THEN edt \cup {r.self} ELSE edt
        /\ call' = [NoCall EXCEPT !.op = "new_edt", !.irq = irq_arg,
                       !.kt = kthread_arg, !.exc = r.exc, !.bundle = r.self]
        /\ UNCHANGED <<codec_vars, cset_vars, uid, irq, kern, kt, proc, devs>>

\* b.bind_to_cset(cset, ktprio); the thread goes away before statement dies
\* of pin_cset (or before the last re-read), and the cpuset library raises
\* (or not) when it cannot move the thread
BindToCset(b, cset, ktprio, dies, raises) ==
    /\ dies # 0 => proc.th[b.kthread].alive
    /\ raises => (dies # 0 \/ ~proc.th[b.kthread].alive
                           \/ ~proc.th[b.kthread].movable)
    /\ \E r \in {bind_to_cset(b, cset, ktprio, irq[b.irq], kern[b.irq],
                              kt[b.kthread], proc, uid, dies, raises)} :
        /\ irq' = [irq EXCEPT ![b.irq] = r.irq]
        /\ kern' = [kern EXCEPT ![b.irq] = r.kern]
        /\ kt' = [kt EXCEPT ![b.kthread] = r.kt]
        /\ proc' = r.os
        /\ call' = [NoCall EXCEPT !.op = "bind", !.bundle = b, !.irq = b.irq,
                       !.kt = b.kthread, !.cpu_list = cset.cpu_list,
                       !.set = cset.name, !.prio = ktprio, !.exc = r.exc,
                       !.steps = r.steps, !.ret = r.irq_cpulist,
                       !.kt_ret = r.kt_cpulist, !.readback = r.verified]
    /\ UNCHANGED <<codec_vars, cset_vars, uid, devs, edt>>

NextEDT ==
    \/ \E i \in IrqIds \cup {NoIrq}, k \in KtPids \cup {NoThread} : NewEDT(i, k)
    \/ \E b \in edt, c \in EdtTargets, p \in EdtPrios,
          d \in 0..(Len(pin_cset_order) + 1), r \in BOOLEAN :
           BindToCset(b, c, p, d, r)

SpecEDT == InitEDT /\ [][NextEDT]_vars

(***************************************************************************)
(* functions.py: the correlation of IRQs, devices and threads.             *)
(***************************************************************************)
\* the characters of a bus address in the order of their code points
PyOrdChars == <<".">> \o DigitChars \o <<":", "a", "b", "c", "d", "e", "f">>

\* ord(c)
PyOrd(c) == CHOOSE n \in 1..Len(PyOrdChars) : PyOrdChars[n] = c

\* a < b of two Python strings
RECURSIVE PyStrLess(_, _)
PyStrLess(a, b) ==
    IF b = <<>> THEN FALSE
    ELSE IF a = <<>> THEN TRUE
    ELSE IF a[1] # b[1] THEN PyOrd(a[1]) < PyOrd(b[1])
    ELSE PyStrLess(Tail(a), Tail(b))

\* the claim of a later device replacing the claim of any earlier one
claim_replaces_always(held, dev) == TRUE

\* lines 274-276 of match_irq_and_pci: the device replaces the one held
claim_replaces(held, dev) == PyStrLess(held.pci_addr, dev.pci_addr)

\* the inner loop of match_irq_and_pci over dev.irq_list
RECURSIVE pci_lookup_dev(_, _, _)
pci_lookup_dev(dev, irq_list, look) ==
    IF irq_list = <<>> THEN look
    ELSE LET pci_irq == Head(irq_list)
         IN  pci_lookup_dev(dev, Tail(irq_list),
                 IF pci_irq \notin DOMAIN look \/ claim_replaces(look[pci_irq], dev)
                 THEN [i \in DOMAIN look \cup {pci_irq} |->
                          IF i = pci_irq THEN dev ELSE look[i]]
                 ELSE look)

\* the outer loop of match_irq_and_pci: reverse_lookup after it
RECURSIVE pci_lookup(_, _)
pci_lookup(dev_list, look) ==
    IF dev_list = <<>> THEN look
    ELSE pci_lookup(Tail(dev_list),
                    pci_lookup_dev(Head(dev_list), Head(dev_list).irq_list, look))

\* match_irq_and_pci(irqs, devs): the IRQs afterwards
match_irq_and_pci(irqs, dev_list) ==
    With(pci_lookup(dev_list, <<>>), LAMBDA look :
        [i \in DOMAIN irqs |->
            IF irqs[i].id \in DOMAIN look
            THEN register_pci_device(irqs[i], look[irqs[i].id])
            ELSE irqs[i]])

\* the first loop of match_kthread_and_irq: reverse_lookup after it
RECURSIVE kthread_lookup(_, _, _)
kthread_lookup(kts, kthreads, look) ==
    IF kthreads = <<>> THEN look
    ELSE LET kthread == kts[Head(kthreads)]
         IN  kthread_lookup(kts, Tail(kthreads),
                 IF kthread._irq_number # NoIrq
                 THEN [n \in DOMAIN look \cup {kthread._irq_number} |->
                          IF n = kthread._irq_number THEN kthread.pid ELSE look[n]]
                 ELSE look)

\* match_kthread_and_irq registering the thread with the IRQ only
match_kthread_and_irq_one_way(irqs, kts, kthreads) ==
    With(kthread_lookup(kts, kthreads, <<>>), LAMBDA look :
        [irqs |-> [i \in DOMAIN irqs |->
                      IF irqs[i].id \in DOMAIN look
                      THEN register_kthread(irqs[i], look[irqs[i].id])
                      ELSE irqs[i]],
         kts |-> kts])

\* match_kthread_and_irq(irqs, kthreads): the IRQs and the threads afterwards
match_kthread_and_irq(irqs, kts, kthreads) ==
    With(kthread_lookup(kts, kthreads, <<>>), LAMBDA look :
        [irqs |-> [i \in DOMAIN irqs |->
                      IF irqs[i].id \in DOMAIN look
                      THEN register_kthread(irqs[i], look[irqs[i].id])
                      ELSE irqs[i]],
         kts |-> [p \in DOMAIN kts |->
                     IF \E i \in DOMAIN irqs :
                            irqs[i].id \in DOMAIN look /\ look[irqs[i].id] = p
                     THEN register_interrupt(kts[p], kts[p]._irq_number)
                     ELSE kts[p]]])

(***************************************************************************)
(* The correlation as a state machine: two IRQs, two devices in either     *)
(* order of the device list, three threads.                                *)
(***************************************************************************)
MatchIrqIds == {42, 43}

\* two threads of IRQ 42 and a thread of no IRQ
MatchThreadNames ==
    (77 :> IrqThreadName)
    @@ (78 :> <<"[", "i", "r", "q", "/", "4", "2", "-", "a", "u", "x", "]">>)
    @@ (79 :> <<"[", "k", "w", "o", "r", "k", "e", "r", "/", "0", "]">>)

MatchPids == DOMAIN MatchThreadNames

MatchDeviceAddrs ==
    <<PinDeviceAddr,
      <<"0", "0", "0", "0", ":", "0", "2", ":", "0", "0", ".", "0">>>>

\* the interrupt numbers a device claims
ClaimLists == {<<>>, <<42>>, <<42, 43>>}

\* lists of distinct elements of S
DistinctSeqs(S) ==
    {s \in SeqsUpTo(S, Cardinality(S)) :
        \A a, b \in 1..Len(s) : a # b => s[a] # s[b]}

\* the OS with the threads of MatchPids alive in the root cpuset
MatchOs ==
    [th |-> [p \in MatchPids |->
                [alive |-> TRUE, movable |-> TRUE, affinity |-> ALL_CPUS,
                 cpuset |-> "root", rtprio |-> 0, sched |-> NoSched]],
     csets |-> [n \in {"root", "rt"} |-> IF n = "root" THEN ALL_CPUS ELSE {1}],
     time |-> 0]

\* freshly discovered entities: no IRQ, thread or device references another
InitMatch ==
    /\ pc = "match"
    /\ inp = NoInput
    /\ out = NoOut
    /\ cs_args = NoArgs
    /\ cspec = NoSpec
    /\ uid = 0
    /\ kern \in [MatchIrqIds -> [exists : {TRUE}, smp_affinity : InitialAffinities,
                                 movable : {TRUE}, count : {0}, unhandled : {0},
                                 last_unhandled_ms : {0}]]
    /\ proc = MatchOs
    /\ irq = [i \in MatchIrqIds |-> IRQ_new(i, kern[i])]
    /\ kt = [p \in MatchPids |-> KThread_init(p, MatchThreadNames[p], proc).self]
    /\ \E order \in DistinctSeqs(1..Len(MatchDeviceAddrs)),
          claims \in [1..Len(MatchDeviceAddrs) -> ClaimLists] :
           /\ Len(order) = Len(MatchDeviceAddrs)
           /\ devs = [n \in 1..Len(order) |->
                         PCIDevice(MatchDeviceAddrs[order[n]], claims[order[n]],
                                   order[n] - 1)]
    /\ edt = {}
    /\ call = NoCall

\* no IRQ holds a thread and no thread holds an IRQ
Fresh ==
    /\ \A i \in DOMAIN irq : irq[i].kthread = NoThread
    /\ \A p \in DOMAIN kt : kt[p]._irq_obj = NoIrq

\* match_irq_and_pci(irqs, devs)
MatchIrqAndPci ==
    /\ irq' = match_irq_and_pci(irq, devs)
    /\ call' = [NoCall EXCEPT !.op = "match_irq_and_pci", !.fresh = Fresh]
    /\ UNCHANGED <<codec_vars, cset_vars, uid, kern, kt, proc, devs, edt>>

\* match_kthread_and_irq(irqs, kthreads)
MatchKthreadAndIrq(kthreads) ==
    \E r \in {match_kthread_and_irq(irq, kt, kthreads)} :
        /\ irq' = r.irqs
        /\ kt' = r.kts
        /\ call' = [NoCall EXCEPT !.op = "match_kthread_and_irq",
                       !.kthreads = kthreads, !.fresh = Fresh]
        /\ UNCHANGED <<codec_vars, cset_vars, uid, kern, proc, devs, edt>>

\* irq[i].register_kthread(kt[k]) called on its own
RegisterKthread(i, k) ==
    /\ irq' = [irq EXCEPT ![i] = register_kthread(@, k)]
    /\ call' = [NoCall EXCEPT !.op = "register_kthread", !.irq = i, !.kt = k]
    /\ UNCHANGED <<codec_vars, cset_vars, uid, kern, kt, proc, devs, edt>>

\* EDTObject(irq=irq_arg, kthread=kthread_arg), the caller not keeping the
\* bundle
ConstructEDT(irq_arg, kthread_arg) ==
    \E r \in {EDTObject_init(irq_arg, kthread_arg, irq, kt)} :
        /\ call' = [NoCall EXCEPT !.op = "new_edt", !.irq = irq_arg,
                       !.kt = kthread_arg, !.exc = r.exc, !.bundle = r.self]
        /\ UNCHANGED <<codec_vars, cset_vars, uid, irq, kern, kt, proc, devs, edt>>

NextMatch ==
    \/ MatchIrqAndPci
    \/ \E l \in DistinctSeqs(MatchPids) : MatchKthreadAndIrq(l)
    \/ \E i \in MatchIrqIds, k \in MatchPids : RegisterKthread(i, k)
    \/ \E i \in MatchIrqIds \cup {NoIrq}, k \in MatchPids \cup {NoThread} :
           ConstructEDT(i, k)

SpecMatch == InitMatch /\ [][NextMatch]_vars

(***************************************************************************)
(* irqs.py and functions.py: the per-CPU interrupt counts and their rates. *)
(***************************************************************************)
\* IRQ.update_counts keeping the baseline it had
update_counts_keeps_baseline(self, time_now, counts) ==
    IF Len(counts) # CPU_COUNT THEN [exc |-> "AssertionError", self |-> self]
    ELSE [exc |-> "None",
          self |-> [self EXCEPT
                       !._counts_hz =
                           [c \in 1..CPU_COUNT |->
                               FloatDiv(counts[c] - self._counts[c],
                                        time_now - self._counts_time)]]]

\* IRQ.update_counts(time_now, counts): the IRQ afterwards, or the exception
update_counts(self, time_now, counts) ==
    IF Len(counts) # CPU_COUNT THEN [exc |-> "AssertionError", self |-> self]
    ELSE [exc |-> "None",
          self |-> [self EXCEPT
                       !._counts_hz =
                           [c \in 1..CPU_COUNT |->
                               FloatDiv(counts[c] - self._counts[c],
                                        time_now - self._counts_time)],
                       !._counts_time = time_now,
                       !._counts = counts]]

\* ' '.join(tokens)
RECURSIVE PyJoin(_)
PyJoin(tokens) ==
    IF tokens = <<>> THEN <<>>
    ELSE IF Len(tokens) = 1 THEN tokens[1]
    ELSE tokens[1] \o <<" ">> \o PyJoin(Tail(tokens))

\* line.split(None, maxsplit) of a line given as its words
PyMaxSplit(words, maxsplit) ==
    IF Len(words) <= maxsplit + 1 THEN words
    ELSE SubSeq(words, 1, maxsplit)
             \o <<PyJoin(SubSeq(words, maxsplit + 1, Len(words)))>>

\* [int(part) for part, cpu in zip(parts, cpu_names)]
RECURSIVE proc_counts(_, _)
proc_counts(parts, n) ==
    IF parts = <<>> \/ n = 0 THEN [exc |-> "None", val |-> <<>>]
    ELSE LET v == PyInt(Head(parts), 10)
             rest == proc_counts(Tail(parts), n - 1)
         IN  IF v.exc # "None" THEN [exc |-> v.exc, val |-> <<>>]
             ELSE IF rest.exc # "None" THEN rest
             ELSE [exc |-> "None", val |-> <<v.val>> \o rest.val]

\* lines 76-92 of update_from_proc_interrupts: data after the lines, a line
\* being its words
RECURSIVE proc_data(_, _, _)
proc_data(lines, n, data) ==
    IF lines = <<>> THEN [exc |-> "None", val |-> data]
    ELSE LET parts == PyMaxSplit(Head(lines), n + 1)
             irq_name == SelectSeq(parts[1], LAMBDA c : c # ":")
             counts == IF Len(parts) = n + 2
                       THEN proc_counts(SubSeq(parts, 2, Len(parts) - 1), n)
                       ELSE proc_counts(Tail(parts), n)
         IN  IF counts.exc # "None" THEN [exc |-> counts.exc, val |-> data]
             ELSE proc_data(Tail(lines), n,
                            [k \in DOMAIN data \cup {irq_name} |->
                                IF k = irq_name THEN counts.val ELSE data[k]])

\* the IRQ whose update_counts is called directly
CountedIrqIds == {42}

\* the loop over irq_list clearing the rate of an IRQ that has no line
RECURSIVE proc_update_clears_absent(_, _, _, _, _)
proc_update_clears_absent(irqs, ids, time_now, data, updated) ==
    IF ids = <<>> THEN [exc |-> "None", irqs |-> irqs, updated |-> updated]
    ELSE IF IntToStr(irqs[Head(ids)].id) \notin DOMAIN data
    THEN proc_update_clears_absent(
             [irqs EXCEPT ![Head(ids)]._counts_hz = np_zeros_float],
             Tail(ids), time_now, data, updated)
    ELSE LET r == update_counts(irqs[Head(ids)], time_now,
                                data[IntToStr(irqs[Head(ids)].id)])
         IN  IF r.exc # "None"
             THEN [exc |-> r.exc, irqs |-> irqs, updated |-> updated]
             ELSE proc_update_clears_absent(
                      [irqs EXCEPT ![Head(ids)] = r.self], Tail(ids),
                      time_now, data, updated \cup {Head(ids)})

\* the loop of lines 100-102 over irq_list, the IRQs in the order of their ids
RECURSIVE proc_update(_, _, _, _, _)
proc_update(irqs, ids, time_now, data, updated) ==
    IF ids = <<>> THEN [exc |-> "None", irqs |-> irqs, updated |-> updated]
    ELSE IF IntToStr(irqs[Head(ids)].id) \notin DOMAIN data
    THEN proc_update(irqs, Tail(ids), time_now, data, updated)
    ELSE LET r == update_counts(irqs[Head(ids)], time_now,
                                data[IntToStr(irqs[Head(ids)].id)])
         IN  IF r.exc # "None"
             THEN [exc |-> r.exc, irqs |-> irqs, updated |-> updated]
             ELSE proc_update([irqs EXCEPT ![Head(ids)] = r.self], Tail(ids),
                              time_now, data, updated \cup {Head(ids)})

\* update_from_proc_interrupts(irq_list) at time_now on the content of
\* /proc/interrupts, each line being its words
update_from_proc_interrupts(irqs, time_now, content) ==
    IF content = <<>>
    THEN [exc |-> "AssertionError", irqs |-> irqs, updated |-> {}]
    ELSE LET cpu_names == content[1]
         IN  IF Len(cpu_names) < 1
                \/ ~(Len(cpu_names[1]) >= 3
                     /\ SubSeq(cpu_names[1], 1, 3) = <<"C", "P", "U">>)
             THEN [exc |-> "AssertionError", irqs |-> irqs, updated |-> {}]
             ELSE With(proc_data(Tail(content), Len(cpu_names), <<>>), LAMBDA d :
                  IF d.exc # "None"
                  THEN [exc |-> d.exc, irqs |-> irqs, updated |-> {}]
                  ELSE IF DOMAIN d.val = {}
                  THEN [exc |-> "AssertionError", irqs |-> irqs, updated |-> {}]
                  ELSE proc_update(irqs, SetToSortedSeq(DOMAIN irqs), time_now,
                                   d.val, {}))

(***************************************************************************)
(* The counts as a state machine: IRQ 42 sampled directly, IRQ 42 and IRQ  *)
(* 43 sampled from /proc/interrupts.                                       *)
(***************************************************************************)
\* the clock readings of the samples
SampleTimes == {0, 10}

\* counts of the first and of the last CPU; the other CPUs count nothing
CountArray(first, last) ==
    [c \in 1..CPU_COUNT |->
        IF c = 1 THEN first ELSE IF c = CPU_COUNT THEN last ELSE 0]

CountArrays == {CountArray(0, 0), CountArray(100, 0), CountArray(150, 30)}

\* the header of /proc/interrupts with n CPUs
CpuNames(n) == [c \in 1..n |-> <<"C", "P", "U">> \o IntToStr(c - 1)]

\* the line of an interrupt: its name, its counts and its description
ProcLine(name, counts, desc) ==
    <<name \o <<":">>>> \o [c \in 1..Len(counts) |-> IntToStr(counts[c])] \o desc

EdgeDesc == <<<<"I", "O", "-", "A", "P", "I", "C">>, <<"e", "t", "h", "0">>>>

\* /proc/interrupts: IRQ 42 counted, IRQ 43 counted or absent, and the
\* line ERR that has one count only
ProcContents ==
    {<<CpuNames(CPU_COUNT), ProcLine(IntToStr(42), a, EdgeDesc)>> \o l43
        \o <<ProcLine(<<"E", "R", "R">>, <<0>>, <<>>)>> :
        a \in CountArrays,
        l43 \in {<<>>, <<ProcLine(IntToStr(43), CountArray(0, 30), <<>>)>>}}

\* content that makes update_from_proc_interrupts raise: nothing at all, a
\* header that names no CPU, no line after the header, a count that is no
\* number, a line of IRQ 43 or of IRQ 42 with one count, and a header and
\* lines of one CPU less than the machine has
BadProcContents ==
    {<<>>,
     <<<<<<"I", "R", "Q">>>>, ProcLine(IntToStr(42), CountArray(100, 0), <<>>)>>,
     <<CpuNames(CPU_COUNT)>>,
     <<CpuNames(CPU_COUNT),
       <<IntToStr(42) \o <<":">>, <<"1">>, <<"x">>>>,
       ProcLine(IntToStr(43), CountArray(0, 30), <<>>)>>,
     <<CpuNames(CPU_COUNT), ProcLine(IntToStr(42), CountArray(150, 30), EdgeDesc),
       ProcLine(IntToStr(43), <<7>>, <<>>)>>,
     <<CpuNames(CPU_COUNT), ProcLine(IntToStr(42), <<7>>, <<>>),
       ProcLine(IntToStr(43), CountArray(0, 30), <<>>)>>,
     <<CpuNames(CPU_COUNT - 1),
       ProcLine(IntToStr(42), [c \in 1..(CPU_COUNT - 1) |-> 0], EdgeDesc)>>}

InitCounts ==
    /\ pc = "counts"
    /\ inp = NoInput
    /\ out = NoOut
    /\ cs_args = NoArgs
    /\ cspec = NoSpec
    /\ uid = 0
    /\ kern \in [MatchIrqIds -> [exists : {TRUE}, smp_affinity : InitialAffinities,
                                 movable : {TRUE}, count : {0}, unhandled : {0},
                                 last_unhandled_ms : {0}]]
    /\ irq = [i \in MatchIrqIds |-> IRQ_new(i, kern[i])]
    /\ kt = <<>>
    /\ proc = <<>>
    /\ devs = <<>>
    /\ edt = <<>>
    /\ call = NoCall

\* irq[i].update_counts(time_now, counts)
UpdateCounts(i, time_now, counts) ==
    \E r \in {update_counts(irq[i], time_now, counts)} :
        /\ irq' = [irq EXCEPT ![i] = r.self]
        /\ call' = [NoCall EXCEPT
                       !.op = "update_counts", !.irq = i, !.exc = r.exc,
                       !.time = time_now, !.counts = counts,
                       !.updated = IF r.exc = "None" THEN {i} ELSE {},
                       !.sampled = call.sampled
                                       \cup (IF r.exc = "None" THEN {i} ELSE {}),
                       !.before = [j \in call.sampled |->
                                      [counts |-> irq[j]._counts,
                                       time |-> irq[j]._counts_time]]]
        /\ UNCHANGED <<codec_vars, cset_vars, uid, kern, sys_vars>>

\* update_from_proc_interrupts(irqs) with the clock at time_now
UpdateFromProcInterrupts(time_now, content) ==
    \E r \in {update_from_proc_interrupts(irq, time_now, content)} :
        /\ irq' = r.irqs
        /\ call' = [NoCall EXCEPT
                       !.op = "update_from_proc_interrupts", !.exc = r.exc,
                       !.time = time_now, !.snapshot = content,
                       !.updated = r.updated,
                       !.sampled = call.sampled \cup r.updated,
                       !.before = [j \in call.sampled |->
                                      [counts |-> irq[j]._counts,
                                       time |-> irq[j]._counts_time]]]
        /\ UNCHANGED <<codec_vars, cset_vars, uid, kern, sys_vars>>

NextCounts ==
    \/ \E i \in CountedIrqIds, t \in SampleTimes,
          c \in CountArrays \cup {<<100>>} : UpdateCounts(i, t, c)
    \/ \E t \in SampleTimes, c \in ProcContents \cup BadProcContents :
           UpdateFromProcInterrupts(t, c)

SpecCounts == InitCounts /\ [][NextCounts]_vars

(***************************************************************************)
(* The privileged operations as a state machine: one IRQ, one thread and   *)
(* the cpusets, each operation under root_decorator called as root and as  *)
(* an ordinary user.                                                       *)
(***************************************************************************)
\* 'chrt -o -p 0 <pid>': the thread goes back to the default policy
OsChrtOther(os, pid) ==
    IF os.th[pid].alive THEN [os EXCEPT !.th[pid].rtprio = 0] ELSE os

\* KThread.chrt_oth without the check of root_decorator
chrt_oth_unchecked(self, os, euid) ==
    [exc |-> "None", os |-> OsChrtOther(os, self.pid)]

\* KThread.chrt_oth under root_decorator
chrt_oth(self, os, euid) ==
    IF euid # 0 THEN [exc |-> "PermissionError", os |-> os]
    ELSE [exc |-> "None", os |-> OsChrtOther(os, self.pid)]

\* 'cset set --cpu <list> --set <name>': the return code and the OS
\* afterwards.  The cpuset is created, or given the CPUs of the list if it
\* exists, and the kernel gives these CPUs to the threads of the cpuset; an
\* empty list and a CPU the machine does not have are refused.
OsCsetSet(os, name, list_str) ==
    LET parsed == range_to_list(list_str)
        cpus   == PySet(parsed.val)
    IN  IF list_str = <<>> \/ parsed.exc # "None" \/ ~(cpus \subseteq ALL_CPUS)
        THEN [rc |-> 1, os |-> os]
        ELSE [rc |-> 0,
              os |-> [th |-> [p \in DOMAIN os.th |->
                                 IF os.th[p].cpuset = name
                                 THEN [os.th[p] EXCEPT !.affinity = cpus]
                                 ELSE os.th[p]],
                      csets |-> [n \in DOMAIN os.csets \cup {name} |->
                                    IF n = name THEN cpus ELSE os.csets[n]],
                      time |-> os.time]]

\* CPUSpec.create under root_decorator: the exception if any, the OS
\* afterwards, the CPU list of the command, the return code of cset and
\* whether the failure was logged (the memory nodes of -m are not kept)
CPUSpec_create(self, os, euid) ==
    LET none == [exc |-> "None", os |-> os, rc |-> 0, cmd |-> <<>>,
                 ran |-> FALSE, logged |-> FALSE]
    IN  IF euid # 0 THEN [none EXCEPT !.exc = "PermissionError"]
        ELSE IF ~range_notation_asserts(self.cpu_list)
        THEN [none EXCEPT !.exc = "AssertionError"]
        ELSE IF self.has_mem /\ ~range_notation_asserts(self.mem_list)
        THEN [none EXCEPT !.exc = "AssertionError"]
        ELSE LET r == OsCsetSet(os, self.name, CPUSpec_get_str(self))
             IN  [none EXCEPT !.os = r.os, !.rc = r.rc, !.ran = TRUE,
                              !.cmd = CPUSpec_get_str(self),
                              !.logged = r.rc # 0]

\* the CPUSpec objects created and pinned to: 'rt' and 'ghost', of one CPU
\* of either node, with and without memory nodes
PrivTargets ==
    {CPUSpec_init(n, MakeArgs(a, <<>>, <<c>>, 0)) :
        n \in CpusetNames, c \in EdtCPUs,
        a \in {{"cpu_list"}, {"cpu_list", "mem_list"}}}

\* the targets of the IRQ pins
PrivLists == {<<c>> : c \in EdtCPUs}

\* the priorities of chrt_ff
PrivPrios == {50}

InitPriv ==
    /\ pc = "priv"
    /\ inp = NoInput
    /\ out = NoOut
    /\ cs_args = NoArgs
    /\ cspec = NoSpec
    /\ uid \in {0, 1000}
    /\ kern \in [IrqIds -> [exists : {TRUE}, smp_affinity : InitialAffinities,
                            movable : {TRUE}, count : {0}, unhandled : {0},
                            last_unhandled_ms : {0}]]
    /\ IsInitialOs(proc)
    /\ \E node \in {-2, 0} : irq = [i \in IrqIds |-> IRQ_init(i, kern[i], node)]
    /\ kt = [p \in KtPids |-> KThread_init(p, IrqThreadName, proc).self]
    /\ devs = <<>>
    /\ edt = <<>>
    /\ call = NoCall

\* irq[i].procfs_write('smp_affinity_list', content)
IrqProcfsWrite(i, cpu_list) ==
    \E r \in {procfs_write(kern[i], list_to_range_notation(cpu_list), uid)} :
        /\ kern' = [kern EXCEPT ![i] = r.kern]
        /\ call' = [NoCall EXCEPT !.op = "procfs_write", !.irq = i,
                       !.cpu_list = cpu_list, !.exc = r.exc,
                       !.content = list_to_range_notation(cpu_list),
                       !.wrote = r.exc # "PermissionError"]
        /\ UNCHANGED <<codec_vars, cset_vars, sys_vars, uid, irq>>

\* kt[k].pin_taskset(taskset)
PinTaskset(k, taskset) ==
    \E r \in {pin_taskset(kt[k], taskset, proc, uid)} :
        /\ proc' = r.os
        /\ call' = [NoCall EXCEPT !.op = "pin_taskset", !.kt = k,
                       !.cpu_list = taskset.cpu_list, !.set = taskset.name,
                       !.exc = r.exc, !.rc = r.rc,
                       !.steps = IF r.exc = "None"
                                 THEN <<OsStep("taskset", "", r.cmd)>> ELSE <<>>]
        /\ UNCHANGED <<codec_vars, cset_vars, uid, irq, kern, kt, devs, edt>>

\* kt[k].chrt_ff(rtprio)
ChrtFf(k, rtprio) ==
    \E r \in {chrt_ff(kt[k], rtprio, proc, uid)} :
        /\ proc' = r.os
        /\ call' = [NoCall EXCEPT !.op = "chrt_ff", !.kt = k, !.prio = rtprio,
                       !.exc = r.exc,
                       !.steps = IF r.exc = "None"
                                 THEN <<OsStep("chrt_ff", "", <<>>)>> ELSE <<>>]
        /\ UNCHANGED <<codec_vars, cset_vars, uid, irq, kern, kt, devs, edt>>

\* kt[k].chrt_oth()
ChrtOth(k) ==
    \E r \in {chrt_oth(kt[k], proc, uid)} :
        /\ proc' = r.os
        /\ call' = [NoCall EXCEPT !.op = "chrt_oth", !.kt = k, !.exc = r.exc,
                       !.steps = IF r.exc = "None"
                                 THEN <<OsStep("chrt_oth", "", <<>>)>> ELSE <<>>]
        /\ UNCHANGED <<codec_vars, cset_vars, uid, irq, kern, kt, devs, edt>>

\* cpuset.create()
CPUSpecCreate(cpuset) ==
    \E r \in {CPUSpec_create(cpuset, proc, uid)} :
        /\ proc' = r.os
        /\ call' = [NoCall EXCEPT !.op = "create", !.cpu_list = cpuset.cpu_list,
                       !.set = cpuset.name, !.exc = r.exc, !.rc = r.rc,
                       !.logged = r.logged,
                       !.steps = IF r.ran
                                 THEN <<OsStep("cset_set", cpuset.name, r.cmd)>>
                                 ELSE <<>>]
        /\ UNCHANGED <<codec_vars, cset_vars, uid, irq, kern, kt, devs, edt>>

NextPriv ==
    \/ \E i \in IrqIds, l \in PrivLists, relax \in BOOLEAN : PinIRQ(i, l, relax)
    \/ \E i \in IrqIds, l \in PrivLists : IrqProcfsWrite(i, l)
    \/ \E k \in KtPids, c \in PrivTargets : PinCset(k, c, 0, FALSE)
    \/ \E k \in KtPids, c \in PrivTargets : PinTaskset(k, c)
    \/ \E k \in KtPids, p \in PrivPrios : ChrtFf(k, p)
    \/ \E k \in KtPids : ChrtOth(k)
    \/ \E c \in PrivTargets : CPUSpecCreate(c)

SpecPriv == InitPriv /\ [][NextPriv]_vars

(***************************************************************************)
(* The refreshes as a state machine: one IRQ and one thread re-read while  *)
(* the interrupt fires, the thread runs and the clock advances.            *)
(***************************************************************************)
\* what /proc/<pid>/sched holds as the thread runs: the counters only grow
SchedSamples ==
    {NoSched,
     [runtime |-> 5, migrations |-> 1, nr_sw |-> 3, nr_sw_vol |-> 2,
      nr_sw_unvol |-> 1],
     [runtime |-> 8, migrations |-> 1, nr_sw |-> 6, nr_sw_vol |-> 4,
      nr_sw_unvol |-> 2]}

\* a <= b on every counter
SchedLeq(a, b) == \A f \in DOMAIN a : a[f] <= b[f]

\* the readings of the clock
ClockValues == {0, 10, 20}

\* the counts of the spurious file of the interrupt
SpuriousCounts == {0, 7}

InitRefresh ==
    /\ pc = "refresh"
    /\ inp = NoInput
    /\ out = NoOut
    /\ cs_args = NoArgs
    /\ cspec = NoSpec
    /\ uid = 0
    /\ kern \in [IrqIds -> [exists : {TRUE}, smp_affinity : InitialAffinities,
                            movable : {TRUE}, count : SpuriousCounts,
                            unhandled : {0}, last_unhandled_ms : {0}]]
    /\ irq = [i \in IrqIds |-> IRQ_init(i, kern[i], -2)]
    /\ \E os \in {o \in [th : [KtPids -> [alive : {TRUE}, movable : {TRUE},
                                          affinity : {ALL_CPUS},
                                          cpuset : {"root"}, rtprio : {0},
                                          sched : SchedSamples]],
                           csets : {[n \in {"root"} |-> ALL_CPUS]},
                           time : ClockValues] : TRUE} :
           /\ proc = os
           /\ kt = [p \in KtPids |-> KThread_init(p, IrqThreadName, os).self]
    /\ devs = <<>>
    /\ edt = <<>>
    /\ call = NoCall

\* irq[i].refresh_contents(); call.before is the object before the call and
\* call.repeat tells that the call before was the same refresh
RefreshIRQ(i) ==
    \E r \in {refresh_contents(irq[i], kern[i])} :
        /\ irq' = [irq EXCEPT ![i] = r.self]
        /\ call' = [NoCall EXCEPT !.op = "irq_refresh", !.irq = i,
                       !.exc = r.exc, !.before = irq[i],
                       !.repeat = /\ call.op = "irq_refresh" /\ call.irq = i
                                  /\ call.exc = "None"]
        /\ UNCHANGED <<codec_vars, cset_vars, sys_vars, uid, kern>>

\* kt[k].refresh_contents()
RefreshKThread(k) ==
    \E r \in {KThread_refresh_contents(kt[k], proc)} :
        /\ kt' = [kt EXCEPT ![k] = r.self]
        /\ call' = [NoCall EXCEPT !.op = "kt_refresh", !.kt = k,
                       !.exc = r.exc, !.before = kt[k], !.time = proc.time,
                       !.repeat = /\ call.op = "kt_refresh" /\ call.kt = k
                                  /\ call.exc = "None"]
        /\ UNCHANGED <<codec_vars, cset_vars, uid, irq, kern, proc, devs, edt>>

\* the interrupt fires, or its affinity is set by another writer
IrqChanges(i) ==
    /\ kern[i].exists
    /\ \/ \E c \in SpuriousCounts :
              /\ c > kern[i].count
              /\ kern' = [kern EXCEPT ![i].count = c]
       \/ \E l \in PrivLists :
              /\ list_to_mask(l) # kern[i].smp_affinity
              /\ kern' = [kern EXCEPT ![i].smp_affinity = list_to_mask(l)]
    /\ call' = [NoCall EXCEPT !.op = "other", !.irq = i]
    /\ UNCHANGED <<codec_vars, cset_vars, sys_vars, uid, irq>>

\* the thread runs: its counters grow
ThreadRuns(k) ==
    /\ proc.th[k].alive
    /\ \E sched \in SchedSamples :
           /\ sched # proc.th[k].sched
           /\ SchedLeq(proc.th[k].sched, sched)
           /\ proc' = [proc EXCEPT !.th[k].sched = sched]
    /\ call' = [NoCall EXCEPT !.op = "other", !.kt = k]
    /\ UNCHANGED <<codec_vars, cset_vars, uid, irq, kern, kt, devs, edt>>

\* time passes
ClockTicks ==
    /\ \E t \in ClockValues :
           /\ t > proc.time
           /\ proc' = [proc EXCEPT !.time = t]
    /\ call' = [NoCall EXCEPT !.op = "other"]
    /\ UNCHANGED <<codec_vars, cset_vars, uid, irq, kern, kt, devs, edt>>

NextRefresh ==
    \/ \E i \in IrqIds : RefreshIRQ(i)
    \/ \E k \in KtPids : RefreshKThread(k)
    \/ \E i \in IrqIds : IrqChanges(i)
    \/ \E i \in IrqIds : IrqVanish(i)
    \/ \E k \in KtPids : ThreadRuns(k)
    \/ \E k \in KtPids : ThreadDies(k)
    \/ ClockTicks

SpecRefresh == InitRefresh /\ [][NextRefresh]_vars

(***************************************************************************)
(* macros.py: irq_parking, the batch pin of a list of IRQs.                *)
(***************************************************************************)
\* the loop of irq_parking, lines 148-150: an exception of set_pin_to_cpu
\* ends it
RECURSIVE parking_loop(_, _, _, _, _, _)
parking_loop(irqs, kerns, ids, cpu_list, euid, attempted) ==
    IF ids = <<>>
    THEN [exc |-> "None", irqs |-> irqs, kerns |-> kerns, attempted |-> attempted]
    ELSE With(set_pin_to_cpu(irqs[Head(ids)], kerns[Head(ids)], cpu_list, TRUE,
                             euid), LAMBDA r :
             IF r.exc # "None"
             THEN [exc |-> r.exc,
                   irqs |-> [irqs EXCEPT ![Head(ids)] = r.self],
                   kerns |-> [kerns EXCEPT ![Head(ids)] = r.kern],
                   attempted |-> Append(attempted, Head(ids))]
             ELSE parking_loop([irqs EXCEPT ![Head(ids)] = r.self],
                               [kerns EXCEPT ![Head(ids)] = r.kern],
                               Tail(ids), r.cpu_list, euid,
                               Append(attempted, Head(ids))))

\* irq_parking(irqs, cpus) under root_decorator: the exception if any, the
\* IRQs and the kernel afterwards, and the IRQs whose pin was attempted
irq_parking(irqs, kerns, ids, cpus, euid) ==
    IF euid # 0
    THEN [exc |-> "PermissionError", irqs |-> irqs, kerns |-> kerns,
          attempted |-> <<>>]
    ELSE IF ~range_notation_asserts(cpus.cpu_list)
    THEN [exc |-> "AssertionError", irqs |-> irqs, kerns |-> kerns,
          attempted |-> <<>>]
    ELSE parking_loop(irqs, kerns, ids, PySort(cpus.cpu_list), euid, <<>>)

(***************************************************************************)
(* The batch pin as a state machine: two IRQs of any node, parked in       *)
(* either order.                                                           *)
(***************************************************************************)
\* the CPUSpec objects given to irq_parking
ParkingTargets ==
    {CPUSpec_init("system", MakeArgs({"cpu_list"}, <<>>, l, 0)) :
        l \in SeqsUpTo(EdtCPUs, MaxTargetLen)}

InitParking ==
    /\ pc = "parking"
    /\ inp = NoInput
    /\ out = NoOut
    /\ cs_args = NoArgs
    /\ cspec = NoSpec
    /\ SysIdle
    /\ uid \in {0, 1000}
    /\ kern \in [MatchIrqIds -> [exists : {TRUE}, smp_affinity : InitialAffinities,
                                 movable : BOOLEAN, count : {0}, unhandled : {0},
                                 last_unhandled_ms : {0}]]
    /\ \E nodes \in [MatchIrqIds -> BestNodes \ {-1}] :
           irq = [i \in MatchIrqIds |-> IRQ_init(i, kern[i], nodes[i])]
    /\ call = NoCall

\* irq_parking(irqs, cpus), irqs being the IRQs of ids in that order
IrqParking(ids, cpus) ==
    \E r \in {irq_parking(irq, kern, ids, cpus, uid)} :
        /\ irq' = r.irqs
        /\ kern' = r.kerns
        /\ call' = [NoCall EXCEPT !.op = "irq_parking", !.irqs = ids,
                       !.cpu_list = cpus.cpu_list, !.exc = r.exc,
                       !.attempted = r.attempted]
        /\ UNCHANGED <<codec_vars, cset_vars, sys_vars, uid>>

\* the interrupt goes away (its driver is unloaded)
ParkedIrqVanish(i) ==
    /\ kern[i].exists
    /\ kern' = [kern EXCEPT ![i].exists = FALSE]
    /\ call' = [NoCall EXCEPT !.op = "other", !.irq = i]
    /\ UNCHANGED <<codec_vars, cset_vars, sys_vars, uid, irq>>

NextParking ==
    \/ \E ids \in DistinctSeqs(MatchIrqIds), c \in ParkingTargets :
           IrqParking(ids, c)
    \/ \E i \in MatchIrqIds : ParkedIrqVanish(i)

SpecParking == InitParking /\ [][NextParking]_vars

(***************************************************************************)
(* Range notation as the contract words it.                                *)
(***************************************************************************)
\* a token is one numeral, or two numerals low-high with low <= high
WellFormedToken(tok) ==
    LET p == PySplit(tok, "-")
    IN  \/ Len(p) = 1 /\ IsNumeral(p[1], 10)
        \/ /\ Len(p) = 2 /\ IsNumeral(p[1], 10) /\ IsNumeral(p[2], 10)
           /\ DigitsVal(p[1], 10) <= DigitsVal(p[2], 10)

TokLow(tok) == DigitsVal(PySplit(tok, "-")[1], 10)

TokHigh(tok) == LET p == PySplit(tok, "-") IN DigitsVal(p[Len(p)], 10)

\* comma-separated ascending well-formed tokens, or the empty string
ValidRangeString(s) ==
    \/ s = <<>>
    \/ LET toks == PySplit(s, ",")
       IN  /\ \A k \in 1..Len(toks) : WellFormedToken(toks[k])
           /\ \A k \in 1..(Len(toks) - 1) : TokLow(toks[k + 1]) > TokHigh(toks[k])

\* a valid string whose tokens are the maximal runs of its CPU set, written
\* without leading zeros
CanonicalRangeString(s) ==
    /\ ValidRangeString(s)
    /\ \A n \in Numerals(s) : n = IntToStr(DigitsVal(n, 10))
    /\ s # <<>> =>
         LET toks == PySplit(s, ",")
         IN  /\ \A k \in 1..Len(toks) :
                   Len(PySplit(toks[k], "-")) = 2 => TokLow(toks[k]) < TokHigh(toks[k])
             /\ \A k \in 1..(Len(toks) - 1) :
                   TokLow(toks[k + 1]) > TokHigh(toks[k]) + 1

\* the indexes at which a maximal run of consecutive integers of L starts
RunStarts(L) == {i \in 1..Len(L) : i = 1 \/ L[i] # L[i - 1] + 1}

\* the index at which the maximal run starting at index i ends
RunEnd(L, i) ==
    CHOOSE j \in i..Len(L) :
        /\ \A k \in i..j : L[k] = L[i] + (k - i)
        /\ j = Len(L) \/ L[j + 1] # L[j] + 1

\* the token of the run starting at index i
RunToken(L, i) ==
    IF RunEnd(L, i) = i THEN IntToStr(L[i])
    ELSE IntToStr(L[i]) \o <<"-">> \o IntToStr(L[RunEnd(L, i)])

\* the tokens of a range-notation string ('' has none)
TokensOf(s) == IF s = <<>> THEN <<>> ELSE PySplit(s, ",")

(***************************************************************************)
(* Claims on the codecs (specification SpecCodec).                         *)
(***************************************************************************)
\* C1: for every sorted-unique list L of non-negative CPU ids,
\* range_to_list(list_to_range_notation(L)) returns exactly L; [] serializes
\* to "" and "" parses to []; [0,1,2,5,7,8,9] serializes to "0-2,5,7-9",
\* which parses back to the same list.
C1_ListRoundTrip ==
    /\ (inp.kind = "list" /\ pc = "done") =>
          out.parsed = [exc |-> "None", val |-> inp.list]
    /\ (inp.kind = "list" /\ inp.list = <<>> /\ pc \in {"serialized", "done"}) =>
          out.str = <<>>
    /\ (inp.kind = "str" /\ inp.str = <<>> /\ pc \in {"parsed", "done"}) =>
          out.parsed = [exc |-> "None", val |-> <<>>]
    /\ (inp.kind = "list" /\ inp.list = <<0, 1, 2, 5, 7, 8, 9>>
          /\ pc \in {"serialized", "done"}) =>
          out.str = <<"0", "-", "2", ",", "5", ",", "7", "-", "9">>

C1_Witness ==
    /\ pc = "done" /\ inp.kind = "list"
    /\ inp.list = <<0, 1, 2, 5, 7, 8, 9>>
    /\ out.str = <<"0", "-", "2", ",", "5", ",", "7", "-", "9">>
    /\ out.parsed.val = <<0, 1, 2, 5, 7, 8, 9>>

\* C2 as claimed: for every valid range-notation string s,
\* list_to_range_notation(range_to_list(s)) == s (taken here on the strings
\* whose numerals are plain decimal, without leading zeros, so that only the
\* token structure decides it).
C2_StringRoundTrip ==
    (/\ inp.kind = "str" /\ ValidRangeString(inp.str)
     /\ \A n \in Numerals(inp.str) : n = IntToStr(DigitsVal(n, 10))) =>
        /\ pc = "parsed" => out.parsed.exc = "None"
        /\ pc = "done" => out.str = inp.str

\* C2 as amended: a valid range-notation string parses without error, and
\* list_to_range_notation(range_to_list(s)) == s exactly when s is canonical
\* (numerals without leading zeros, low < high in every pair, every token
\* starting at least 2 above the end of the one before it); for every other
\* valid s the result is the canonical string of the same CPU list.
C2_CanonicalRoundTrip ==
    (inp.kind = "str" /\ ValidRangeString(inp.str)) =>
        /\ pc = "parsed" => out.parsed.exc = "None"
        /\ pc = "done" =>
              /\ (out.str = inp.str) <=> CanonicalRangeString(inp.str)
              /\ CanonicalRangeString(out.str)
              /\ range_to_list(out.str) = out.parsed

C2_Witness ==
    /\ pc = "done" /\ inp.kind = "str"
    /\ inp.str = <<"0", "-", "1", ",", "3">>
    /\ out.parsed.val = <<0, 1, 3>>
    /\ out.str = inp.str

\* C3: for every sorted-unique list of non-negative integers the output of
\* list_to_range_notation has exactly one token per maximal run of
\* consecutive integers, in ascending order, a single integer for a run of
\* length 1 and "first-last" for a longer run, so that no two adjacent
\* tokens describe consecutive integers.
C3_MaximalRuns ==
    (inp.kind = "list" /\ pc = "serialized") =>
        LET toks   == TokensOf(out.str)
            starts == SetToSortedSeq(RunStarts(inp.list))
        IN  /\ Len(toks) = Len(starts)
            /\ \A k \in 1..Len(toks) : toks[k] = RunToken(inp.list, starts[k])
            /\ \A k \in 1..(Len(toks) - 1) : TokLow(toks[k + 1]) > TokHigh(toks[k]) + 1

C3_Witness ==
    /\ pc = "serialized" /\ inp.kind = "list"
    /\ inp.list = <<0, 1, 2, 4, 6, 7>>
    /\ TokensOf(out.str) = << <<"0", "-", "2">>, <<"4">>, <<"6", "-", "7">> >>

\* C4: for every non-negative mask m, list_to_mask(mask_to_list(m)) == m,
\* where bit i of the mask is set iff CPU i is in the list; and
\* list_to_mask([0,3,5]) == 41.
C4_MaskRoundTrip ==
    /\ (inp.kind = "mask" /\ pc \in {"listed", "done"}) =>
          \A i \in 0..(MaskBits + 1) :
              ((inp.mask \div Pow2(i)) % 2 = 1) <=> (i \in PySet(out.list))
    /\ (inp.kind = "mask" /\ pc = "done") => out.mask = inp.mask
    /\ (inp.kind = "list" /\ inp.list = <<0, 3, 5>> /\ pc = "masked") => out.mask = 41

C4_Witness ==
    /\ pc = "done" /\ inp.kind = "mask"
    /\ inp.mask = 41
    /\ out.list = <<0, 3, 5>>
    /\ out.mask = 41

(***************************************************************************)
(* Claims on CPUSpec (specification SpecCPUSpec).                          *)
(***************************************************************************)
IsSortedUnique(l) == \A k \in 1..(Len(l) - 1) : l[k] < l[k + 1]

SuppliedSources(args) == args.supplied \cap {"str_spec", "cpu_list", "mask"}

\* C5: after CPUSpec construction from any single accepted input (an explicit
\* list that may be unsorted or contain repeated CPU ids, a range string
\* accepted by range_to_list, or a mask), cpu_list is a sorted list without
\* duplicates and mask equals list_to_mask(cpu_list).
C5_SortedUnique ==
    cspec.pc \in {"constructed", "printed"} =>
        /\ IsSortedUnique(cspec.cpu_list)
        /\ cspec.mask = list_to_mask(cspec.cpu_list)

\* C6: CPUSpec construction succeeds only when exactly one of cpu_list,
\* str_spec and mask is supplied (the empty string counts as a supplied
\* str_spec); with none or more than one supplied it fails and produces no
\* CPUSpec.
C6_ExactlyOneSource ==
    cspec.pc # "none" =>
        /\ cspec.pc \in {"constructed", "printed"} =>
              Cardinality(SuppliedSources(cs_args)) = 1
        /\ Cardinality(SuppliedSources(cs_args)) # 1 =>
              cspec = CPUSpec_raised("AssertionError")
        /\ (SuppliedSources(cs_args) = {"str_spec"} /\ cs_args.str_spec = <<>>) =>
              (cspec.exc = "None" /\ cspec.cpu_list = <<>> /\ cspec.mask = 0)

C6_Witness ==
    /\ cspec.pc = "constructed"
    /\ cs_args.supplied = {"str_spec"}
    /\ cs_args.str_spec = <<>>
    /\ cspec.cpu_list = <<>>

(***************************************************************************)
(* The IRQ pin protocol: claims.                                           *)
(***************************************************************************)
\* the affinity the kernel holds for IRQ i, as a CPU set
KernelAffinity(i) == PySet(mask_to_list(kern[i].smp_affinity))

\* the target is outside the known preferred node of the IRQ
OutsideNode(self, cpu_list) ==
    /\ self.best_node >= 0
    /\ \E c \in PySet(cpu_list) : c \notin NUMA_CPULIST[self.best_node + 1]

\* C7: a pin that reaches the kernel write hands over the requested target cut
\* down to the preferred node's CPUs when the node is known, the target is not
\* inside it and relaxation is on, and the requested target itself otherwise;
\* the policy error is logged exactly when the target is outside the node and
\* relaxation is off; the text written parses to that CPU set, and a write the
\* kernel takes leaves that set as the affinity.  Node {0,1,2,3} with target
\* [1,2,9] gives [1,2] relaxed and [1,2,9] unrelaxed.
C7_EffectiveTarget ==
    (call.op = "pin" /\ call.wrote) =>
        LET self    == irq[call.irq]
            req     == PySort(call.cpu_list)
            outside == OutsideNode(self, req)
        IN  /\ call.effective =
                   IF outside /\ call.relax
                   THEN SelectSeq(req, LAMBDA c : c \in NUMA_CPULIST[self.best_node + 1])
                   ELSE req
            /\ call.policy_error <=> (outside /\ ~call.relax)
            /\ call.content # <<>> =>
                   PySet(range_to_list(call.content).val) = PySet(call.effective)
            /\ (/\ kern[call.irq].exists /\ kern[call.irq].movable
                /\ PySet(call.effective) # {}
                /\ PySet(call.effective) \subseteq ALL_CPUS)
                   => KernelAffinity(call.irq) = PySet(call.effective)
            /\ (/\ call.cpu_list = ExampleTarget /\ self.best_node >= 0
                /\ NUMA_CPULIST[self.best_node + 1] = 0..3)
                   => call.effective = IF call.relax THEN <<1, 2>> ELSE ExampleTarget

C7_Witness ==
    /\ call.op = "pin" /\ call.wrote /\ call.relax
    /\ call.cpu_list = ExampleTarget
    /\ irq[call.irq].best_node = 0
    /\ call.effective = <<1, 2>>
    /\ KernelAffinity(call.irq) = {1, 2}

\* C8: the flag of an IRQ goes from unset to set only in a pin of that IRQ
\* that re-read the affinity, and then the affinity the kernel holds equals the
\* effective target as a set of CPUs, whatever the order of the target.
C8_FlagOnlyOnSetMatch ==
    [][\A i \in IrqIds :
          (~irq[i].was_pinned_successfully_once
              /\ irq'[i].was_pinned_successfully_once)
          => /\ call'.op = "pin" /\ call'.irq = i /\ call'.readback
             /\ PySet(call'.ret) = PySet(call'.effective)
             /\ PySet(mask_to_list(kern'[i].smp_affinity)) = PySet(call'.effective)]_vars

C8_Witness ==
    /\ call.op = "pin" /\ call.readback /\ ~call.repeat
    /\ call.cpu_list = <<CPU_COUNT - 1, 1>>
    /\ call.ret = <<1, CPU_COUNT - 1>>
    /\ irq[call.irq].was_pinned_successfully_once

\* C9: a pin whose read-back differs from the effective target returns without
\* raising and leaves the flag unset, so that irq_summary reports the IRQ,
\* whatever pins came before.
C9_MismatchLeavesFlagUnset ==
    (call.op = "pin" /\ call.readback /\ PySet(call.ret) # PySet(call.effective))
        => /\ call.exc = "None"
           /\ ~irq[call.irq].was_pinned_successfully_once
           /\ call.irq \in irq_summary(irq)

\* C10: a pin that repeats the pin before it (same IRQ, same target, same
\* relaxation flag, nothing in between) ends as that one did: same exception
\* or same returned affinity, and the same flag.
C10_PinTwiceSame ==
    [][(call'.op = "pin" /\ call'.repeat)
          => /\ call'.exc = call.exc
             /\ call'.ret = call.ret
             /\ \A i \in IrqIds : irq'[i].was_pinned_successfully_once
                                    = irq[i].was_pinned_successfully_once]_vars

C10_Witness ==
    /\ call.op = "pin" /\ call.repeat /\ call.readback
    /\ call.ret = <<1>>
    /\ irq[call.irq].was_pinned_successfully_once

(***************************************************************************)
(* The thread pin protocol: claims.                                        *)
(***************************************************************************)
\* the steps of a call that act on the cpuset or the affinity of the thread
PinSteps(steps) ==
    SelectSeq(steps, LAMBDA s : s.cmd \in {"cset", "taskset", "sched_getaffinity"})

\* the affinity the OS reports for thread k: none for a thread that is gone
OsAffinity(os, k) == IF os.th[k].alive THEN os.th[k].affinity ELSE {}

\* C11: the steps pin_cset takes on the thread are, in this order, the move
\* into the cpuset 'root', taskset with the target CPU list, the move into
\* the target cpuset and the re-read of the affinity: what a call did is
\* always a beginning of that sequence, all of it when the call returns
\* normally, and a non-zero return code of taskset does not end it.
C11_PinCsetOrder ==
    (call.op = "pin_cset" /\ call.steps # <<>>) =>
        LET did == PinSteps(call.steps)
        IN  /\ did[1] = OsStep("cset", "root", <<>>)
            /\ Len(did) >= 2 =>
                   /\ did[2].cmd = "taskset"
                   /\ range_to_list(did[2].cpus).val = PySort(call.cpu_list)
            /\ Len(did) >= 3 => did[3] = OsStep("cset", call.set, <<>>)
            /\ Len(did) >= 4 => did[4].cmd = "sched_getaffinity"
            /\ Len(did) <= 4
            /\ call.exc = "None" => Len(did) = 4
            /\ call.readback <=> Len(did) = 4
            /\ call.rc # 0 => Len(did) >= 3

C11_Witness ==
    /\ call.op = "pin_cset" /\ call.exc = "None"
    /\ call.rc # 0
    /\ Len(PinSteps(call.steps)) = 4

\* C12: a step sets the flag of a thread only if it is a pin_cset of that
\* thread whose re-read affinity, the affinity the OS holds, equals the
\* target as a set; a pin_cset that reads anything else back, the empty
\* affinity of a thread that is gone included, logs the error, leaves the
\* flag as it was and returns without raising.
C12_CsetFlagOnlyOnMatch ==
    [][\A k \in KtPids :
          LET before == kt[k].was_cset_successfully_once
              after  == kt'[k].was_cset_successfully_once
              pinned == call'.op = "pin_cset" /\ call'.kt = k /\ call'.readback
          IN  /\ (~before /\ after) =>
                     /\ pinned
                     /\ PySet(call'.ret) = PySet(call'.cpu_list)
                     /\ OsAffinity(proc', k) = PySet(call'.cpu_list)
              /\ (pinned /\ PySet(call'.ret) # PySet(call'.cpu_list)) =>
                     /\ call'.logged
                     /\ call'.exc = "None"
                     /\ after = before]_vars

C12_Witness ==
    /\ call.op = "pin_cset" /\ call.readback /\ call.logged
    /\ call.cpu_list # <<>> /\ call.ret = <<>>
    /\ ~proc.th[call.kt].alive
    /\ ~kt[call.kt].was_cset_successfully_once

(***************************************************************************)
(* The composite bind: claims.                                             *)
(***************************************************************************)
\* the device a bundle holds
BundleDevice(b) ==
    devs[CHOOSE n \in 1..Len(devs) : devs[n].pci_addr = b.pci_device]

\* a step that touches no kernel object and no entity: no IRQ affinity
\* write, no cpuset, taskset or priority call, no flag change
NothingTouched ==
    /\ call'.steps = <<>>
    /\ kern' = kern /\ proc' = proc
    /\ irq' = irq /\ kt' = kt

\* C13: bind_to_cset with a CPUSpec whose CPU list does not hold exactly
\* one CPU (two CPUs, one CPU twice, no CPU) raises AssertionError before
\* any kernel object is touched: no step is taken on the IRQ, the cpuset,
\* the affinity or the priority of the thread, and no flag changes.
C13_BindNeedsOneCPU ==
    [][(call'.op = "bind" /\ Len(call'.cpu_list) # 1) =>
           /\ call'.exc = "AssertionError"
           /\ NothingTouched]_vars

C13_Witness ==
    /\ call.op = "bind" /\ call.exc = "AssertionError"
    /\ call.cpu_list = <<1, CPU_COUNT - 1>>
    /\ call.prio # NoPrio
    /\ uid = 0 /\ proc.th[call.kt].alive

\* C14: bind_to_cset with one target CPU that is not in the CPU set of the
\* bundle's device raises RuntimeError before the IRQ or the thread is
\* pinned and before the priority is applied.
C14_BindNeedsDeviceNode ==
    [][(/\ call'.op = "bind" /\ Len(call'.cpu_list) = 1
        /\ call'.cpu_list[1] \notin BundleDevice(call'.bundle).cpu_set) =>
           /\ call'.exc = "RuntimeError"
           /\ NothingTouched]_vars

C14_Witness ==
    /\ call.op = "bind" /\ call.exc = "RuntimeError"
    /\ call.cpu_list = <<1>>
    /\ BundleDevice(call.bundle).numa_node = 1
    /\ call.prio # NoPrio
    /\ uid = 0 /\ proc.th[call.kt].alive

\* C15: when bind_to_cset returns normally for the target CPU c, the list
\* re-read from the IRQ and the list re-read from the thread are both [c],
\* and they are what the kernel holds; a call that re-read anything else
\* ends in AssertionError.
C15_BindPostcondition ==
    call.op = "bind" =>
        /\ call.exc = "None" =>
               /\ Len(call.cpu_list) = 1
               /\ call.readback
               /\ call.ret = call.cpu_list
               /\ call.kt_ret = call.cpu_list
               /\ KernelAffinity(call.irq) = PySet(call.cpu_list)
               /\ OsAffinity(proc, call.kt) = PySet(call.cpu_list)
        /\ (call.readback /\ (call.ret # call.cpu_list
                                \/ call.kt_ret # call.cpu_list)) =>
               call.exc = "AssertionError"

C15_Witness ==
    /\ call.op = "bind" /\ call.exc = "None"
    /\ call.cpu_list = <<CPU_COUNT - 1>>
    /\ call.ret = <<CPU_COUNT - 1>> /\ call.kt_ret = <<CPU_COUNT - 1>>
    /\ call.prio # NoPrio

\* a bind whose last assertions fail: the thread is gone at the last re-read
C15_AssertionWitness ==
    /\ call.op = "bind" /\ call.exc = "AssertionError"
    /\ call.readback
    /\ call.ret = call.cpu_list /\ call.kt_ret = <<>>

(***************************************************************************)
(* The correlation: claims.                                                *)
(***************************************************************************)
\* the IRQ, the thread and the device of bundle b reference each other
Consistent(b) ==
    /\ b.irq \in DOMAIN irq /\ b.kthread \in DOMAIN kt
    /\ irq[b.irq].kthread = b.kthread
    /\ kt[b.kthread]._irq_obj = b.irq
    /\ irq[b.irq].pci_device # NoDevice
    /\ irq[b.irq].pci_device = b.pci_device

\* C16: a bundle is constructed, from an IRQ or from a thread, only when
\* the IRQ's thread is the bundle's thread, that thread's IRQ is the
\* bundle's IRQ and the IRQ has its device; every other construction raises.
C16_BundleOnlyWhenConsistent ==
    (call.op = "new_edt" /\ call.exc = "None") => Consistent(call.bundle)

\* a construction from correlated entities, and one that is refused
C16_ConsistentWitness ==
    /\ call.op = "new_edt" /\ call.exc = "None" /\ Consistent(call.bundle)

C16_RefusedWitness ==
    /\ call.op = "new_edt" /\ call.exc = "AssertionError"
    /\ call.irq # NoIrq /\ irq[call.irq].kthread # NoThread
    /\ irq[call.irq].pci_device = NoDevice

\* the devices of the list that claim interrupt number i
Claimants(i) ==
    {devs[n] : n \in {m \in 1..Len(devs) : i \in PySet(devs[m].irq_list)}}

\* the claimant of i with the greatest bus address
GreatestClaimant(i) ==
    CHOOSE d \in Claimants(i) :
        \A e \in Claimants(i) : e = d \/ PyStrLess(e.pci_addr, d.pci_addr)

\* C17: after match_irq_and_pci every IRQ claimed by a device holds the
\* claimant of the greatest bus address, whatever the order of the device
\* list, and has that device's node as its preferred node; with
\* "0000:01:00.0" and "0000:02:00.0" both claiming IRQ 42 it holds
\* "0000:02:00.0".  An IRQ no device claims holds no device and the unknown
\* node (-2).
C17_GreatestAddressWins ==
    call.op = "match_irq_and_pci" =>
        \A i \in DOMAIN irq :
            /\ Claimants(i) # {} =>
                   /\ irq[i].pci_device = GreatestClaimant(i).pci_addr
                   /\ irq[i].best_node = GreatestClaimant(i).numa_node
            /\ Claimants(i) = {} =>
                   /\ irq[i].pci_device = NoDevice
                   /\ irq[i].best_node = -2
            /\ (\A n \in 1..Len(devs) : i \in PySet(devs[n].irq_list)) =>
                   irq[i].pci_device = MatchDeviceAddrs[2]

\* the device of the greater address comes first in the list, both devices
\* claim IRQ 42 and none claims IRQ 43
C17_Witness ==
    /\ call.op = "match_irq_and_pci"
    /\ devs[1].pci_addr = MatchDeviceAddrs[2]
    /\ devs[2].pci_addr = MatchDeviceAddrs[1]
    /\ devs[1].irq_list = <<42>> /\ devs[2].irq_list = <<42>>
    /\ irq[42].pci_device = MatchDeviceAddrs[2]
    /\ irq[42].best_node = 1
    /\ irq[43].pci_device = NoDevice /\ irq[43].best_node = -2

\* C18: match_kthread_and_irq on IRQs and threads that hold no reference to
\* each other (devices may have been attached) leaves
\* mutual references: IRQ i holds thread k exactly when k holds i; every
\* IRQ whose id is the number of a thread of the list holds one of these
\* threads; with several threads of one number one of them is attached and
\* the others hold no IRQ.
C18_MutualReferences ==
    [][(Fresh /\ call'.op = "match_kthread_and_irq") =>
          /\ \A i \in DOMAIN irq, k \in DOMAIN kt :
                 irq'[i].kthread = k <=> kt'[k]._irq_obj = i
          /\ \A i \in DOMAIN irq :
                 LET bound == {k \in PySet(call'.kthreads) : kt[k]._irq_number = i}
                 IN  /\ bound # {} => irq'[i].kthread \in bound
                     /\ bound = {} => irq'[i].kthread = NoThread
                     /\ \A k \in bound \ {irq'[i].kthread} :
                            kt'[k]._irq_obj = NoIrq]_vars

\* two threads of IRQ 42 in the list: the last is attached
C18_Witness ==
    /\ call.op = "match_kthread_and_irq" /\ call.fresh
    /\ call.kthreads = <<78, 79, 77>>
    /\ irq[42].kthread = 77 /\ kt[77]._irq_obj = 42
    /\ kt[78]._irq_obj = NoIrq /\ kt[79]._irq_obj = NoIrq
    /\ irq[43].kthread = NoThread
    /\ irq[42].pci_device # NoDevice

(***************************************************************************)
(* The counts: claims.                                                     *)
(***************************************************************************)
\* the IRQs whose first sample the last call recorded
FirstSampled == call.updated \ DOMAIN call.before

\* the IRQs of which the last call recorded a later sample
SampledAgain == call.updated \cap DOMAIN call.before

\* the counts the last call handed to IRQ i, as /proc/interrupts prints them
GivenCounts(i) ==
    IF call.op = "update_counts"
    THEN [c \in 1..Len(call.counts) |-> IntToStr(call.counts[c])]
    ELSE LET line == CHOOSE n \in 2..Len(call.snapshot) :
                         call.snapshot[n][1] = IntToStr(i) \o <<":">>
         IN  SubSeq(call.snapshot[line], 2, CPU_COUNT + 1)

\* C19: the first sample recorded for an IRQ produces no rate: after it the
\* rate of every CPU is zero, not a value computed from the placeholder
\* baseline (zero counts at time 0) and not the outcome of a division by
\* zero.
C19_FirstSampleNoRate ==
    \A i \in FirstSampled :
        \A c \in 1..CPU_COUNT : irq[i]._counts_hz[c] = FloatDiv(0, 1)

\* a first sample of 150 counts at time 10 leaves the rate 15 per second
C19_PlaceholderRate ==
    /\ call.op = "update_counts" /\ call.exc = "None"
    /\ call.before = <<>>
    /\ call.time = 10 /\ call.counts[1] = 150
    /\ irq[call.irq]._counts_hz[1] = [num |-> 15, den |-> 1]

\* a first sample of 100 counts at time 0 leaves an infinite rate
C19_DivideByZero ==
    /\ call.op = "update_counts" /\ call.exc = "None"
    /\ call.before = <<>>
    /\ call.time = 0 /\ call.counts[1] = 100
    /\ irq[call.irq]._counts_hz[1].den = 0

\* C20: a sample after the first sets the rate of every CPU to (new count -
\* stored count) / (new time - stored time), the two times differing, and
\* stores the new counts and the new time as the baseline; counts 100 at
\* time 0 then 150 at time 10 give 5 per second.
C20_RateFromBaseline ==
    \A i \in SampledAgain :
        LET dt == call.time - call.before[i].time
        IN  /\ irq[i]._counts_time = call.time
            /\ [c \in 1..CPU_COUNT |-> IntToStr(irq[i]._counts[c])] = GivenCounts(i)
            /\ dt # 0 =>
                   \A c \in 1..CPU_COUNT :
                       LET hz == irq[i]._counts_hz[c]
                           dc == irq[i]._counts[c] - call.before[i].counts[c]
                       IN  /\ hz.den > 0
                           /\ hz.num * dt = hz.den * dc
                           /\ (dc = 50 /\ dt = 10) => hz = [num |-> 5, den |-> 1]

C20_Witness ==
    /\ call.op = "update_from_proc_interrupts" /\ call.exc = "None"
    /\ 42 \in DOMAIN call.before /\ 42 \in call.updated
    /\ call.before[42] = [counts |-> CountArray(100, 0), time |-> 0]
    /\ call.time = 10
    /\ irq[42]._counts = CountArray(150, 30)
    /\ irq[42]._counts_hz[1] = [num |-> 5, den |-> 1]
    /\ irq[42]._counts_hz[CPU_COUNT] = [num |-> 3, den |-> 1]

\* the names of the lines of the snapshot of the last call, the colon left out
RowNames ==
    IF call.snapshot = <<>> THEN {}
    ELSE {SelectSeq(call.snapshot[n][1], LAMBDA ch : ch # ":") :
              n \in 2..Len(call.snapshot)}

\* C21: update_from_proc_interrupts changes no IRQ but those whose id is the
\* name of a line of the snapshot: an IRQ without a line keeps its counts,
\* its timestamp and its rate, and the lines of other names (ERR) change
\* no IRQ.
C21_OnlyRowsOfTrackedIrqs ==
    [][call'.op = "update_from_proc_interrupts" =>
          \A i \in DOMAIN irq :
              \/ irq'[i] = irq[i]
              \/ /\ i \in call'.updated
                 /\ \E n \in 2..Len(call'.snapshot) :
                        call'.snapshot[n][1] = IntToStr(i) \o <<":">>]_vars

\* IRQ 43, sampled at time 0, has no line in a snapshot taken at time 10
\* that updates IRQ 42
C21_Witness ==
    /\ call.op = "update_from_proc_interrupts" /\ call.exc = "None"
    /\ call.time = 10
    /\ 43 \in DOMAIN call.before /\ 43 \notin call.updated
    /\ IntToStr(43) \notin RowNames /\ <<"E", "R", "R">> \in RowNames
    /\ 42 \in call.updated
    /\ irq[43]._counts_time = 0
    /\ irq[43]._counts_hz[CPU_COUNT].den = 0

\* the counts and the timestamp IRQ i held before the last call: those of
\* IRQ.__init__ if it had not been sampled
BaselineBefore(i) ==
    IF i \in DOMAIN call.before THEN call.before[i]
    ELSE [counts |-> np_zeros_int, time |-> 0]

\* C29: a call of update_from_proc_interrupts that raises has modified no
\* IRQ: the counts, the timestamp and the rate of every IRQ are those of
\* before the call.
C29_FailureModifiesNothing ==
    (call.op = "update_from_proc_interrupts" /\ call.exc # "None") =>
        \A i \in DOMAIN irq :
            [counts |-> irq[i]._counts, time |-> irq[i]._counts_time]
                = BaselineBefore(i)

\* the line of IRQ 43 has one count: the call raises after IRQ 42 was updated
C29_PartialUpdate ==
    /\ call.op = "update_from_proc_interrupts" /\ call.exc = "AssertionError"
    /\ call.updated = {42}
    /\ call.time = 10 /\ irq[42]._counts_time = 10
    /\ irq[42]._counts = CountArray(150, 30)
    /\ irq[43]._counts_time = 0

\* the calls that raise before the loop over the IRQs modify nothing
C29_EarlyFailure ==
    /\ call.op = "update_from_proc_interrupts" /\ call.exc = "ValueError"
    /\ call.updated = {}

(***************************************************************************)
(* The batch pin: claims.                                                  *)
(***************************************************************************)
\* C22: while irq_parking pins a list of IRQs that all exist, a failure on
\* one of them (a write the kernel refuses, a read-back that differs, a
\* relaxed target left empty) does not keep the pin of the others from
\* being attempted: run as root with a target that is not empty, the call
\* attempts every IRQ of the list and the failure shows only as the flag of
\* that IRQ staying unset.
C22_BatchIsolatesFailures ==
    (/\ call.op = "irq_parking" /\ uid = 0 /\ call.cpu_list # <<>>
     /\ \A n \in 1..Len(call.irqs) : kern[call.irqs[n]].exists) =>
        /\ call.attempted = call.irqs
        /\ call.exc = "None"

\* IRQ 42 prefers node 0 and the target is CPU 9 of node 1: the relaxed
\* target is empty, the call raises and IRQ 43 is not attempted
C22_BatchAborted ==
    /\ call.op = "irq_parking" /\ call.exc = "ProcfsWriteError"
    /\ call.irqs = <<42, 43>> /\ call.attempted = <<42>>
    /\ call.cpu_list = <<CPU_COUNT - 1>>
    /\ irq[42].best_node = 0
    /\ kern[42].exists /\ kern[43].exists
    /\ ~irq[43].was_pinned_successfully_once

\* a write the kernel refuses and a read-back that differs are isolated
C22_MismatchIsolated ==
    /\ call.op = "irq_parking" /\ call.exc = "None"
    /\ call.irqs = <<42, 43>> /\ call.attempted = <<42, 43>>
    /\ ~kern[42].movable /\ kern[43].movable
    /\ ~irq[42].was_pinned_successfully_once
    /\ irq[43].was_pinned_successfully_once

(***************************************************************************)
(* The IRQ pin protocol: failures.                                         *)
(***************************************************************************)
\* the last call was a relaxed pin, as root, of a target that is not empty
\* and has no CPU of the known preferred node of the IRQ
RelaxedToNothing ==
    /\ call.op = "pin" /\ call.relax /\ uid = 0
    /\ call.cpu_list # <<>>
    /\ irq[call.irq].best_node >= 0
    /\ PySet(call.cpu_list) \cap NUMA_CPULIST[irq[call.irq].best_node + 1] = {}

\* C23: a relaxed pin whose target shares no CPU with the preferred node of
\* the IRQ has an empty effective target and still completes: it writes the
\* empty target, re-reads the affinity, compares and returns the affinity
\* the kernel holds without raising.
C23_EmptyTargetCompletes ==
    (RelaxedToNothing /\ kern[call.irq].exists) =>
        /\ call.effective = <<>>
        /\ call.wrote /\ call.readback
        /\ call.exc = "None"
        /\ PySet(call.ret) = KernelAffinity(call.irq)

\* the relaxed pin of CPU 9 on an IRQ of node 0 raises at the write
C23_EmptyTargetRaises ==
    /\ RelaxedToNothing /\ kern[call.irq].exists
    /\ call.cpu_list = <<CPU_COUNT - 1>> /\ irq[call.irq].best_node = 0
    /\ call.effective = <<>> /\ call.content = <<>>
    /\ call.exc = "ProcfsWriteError"
    /\ ~call.readback

\* C24: a pin whose kernel write fails because the interrupt is gone
\* catches the failure of the write and goes on: it re-reads, compares and
\* returns to its caller without raising.
C24_VanishedWriteCaught ==
    (/\ call.op = "pin" /\ uid = 0 /\ call.wrote
     /\ ~kern[call.irq].exists) =>
        /\ call.readback
        /\ call.exc = "None"

\* the write to the files of an interrupt that is gone fails and is caught;
\* the re-read that follows raises FileNotFoundError
C24_ReadBackRaises ==
    /\ call.op = "pin" /\ uid = 0 /\ call.wrote
    /\ call.content # <<>>
    /\ ~kern[call.irq].exists
    /\ ~call.readback
    /\ call.exc = "FileNotFoundError"


(***************************************************************************)
(* The IRQ pin protocol: the success flag.                                 *)
(***************************************************************************)
\* the call recorded in c is a pin of IRQ i that ran to its comparison and
\* read back exactly its effective target
VerifiedPin(c, i) ==
    /\ c.op = "pin" /\ c.irq = i
    /\ c.exc = "None" /\ c.readback
    /\ PySet(c.ret) = PySet(c.effective)

\* C30: the success flag of an IRQ is monotone under pins: it starts
\* false, no step turns it from true to false, and it turns true exactly
\* in a pin that verified; so after any sequence of pins it is true if
\* and only if at least one of them verified.
C30_FlagMonotone ==
    /\ \A i \in IrqIds : ~irq[i].was_pinned_successfully_once
    /\ [][\A i \in IrqIds :
             irq'[i].was_pinned_successfully_once =
                 (irq[i].was_pinned_successfully_once \/ VerifiedPin(call', i))]_vars

\* a pin that read back something else than its target after an earlier
\* pin had verified: the flag is still set
C30_Witness ==
    /\ call.op = "pin" /\ uid = 0
    /\ call.exc = "None" /\ call.readback
    /\ PySet(call.ret) # PySet(call.effective)
    /\ irq[call.irq].was_pinned_successfully_once


(***************************************************************************)
(* The composite bind: a device local to every CPU.                        *)
(***************************************************************************)
\* the last call bound, to one existing CPU, a bundle whose device is local
\* to every CPU (node -1)
BindOfAllCpuDevice ==
    /\ call.op = "bind"
    /\ Len(call.cpu_list) = 1 /\ call.cpu_list[1] \in ALL_CPUS
    /\ BundleDevice(call.bundle).numa_node = -1
    /\ BundleDevice(call.bundle).cpu_set = ALL_CPUS
    /\ irq[call.irq].best_node = -1

\* C28: for a bundle whose device spans all CPUs (node -1) the NUMA check
\* of bind_to_cset rejects no target CPU: the bind to any one existing CPU
\* is not refused with RuntimeError and, as root, goes on to the pin steps.
C28_AllCpuDeviceAcceptsAnyCpu ==
    BindOfAllCpuDevice =>
        /\ call.exc # "RuntimeError"
        /\ uid = 0 => call.steps # <<>>

\* the bind of such a bundle to CPU 1, of node 0, is refused before any
\* pin step: NUMA_CPULIST[-1] is the last node
C28_LastNodeOnly ==
    /\ BindOfAllCpuDevice
    /\ uid = 0
    /\ call.cpu_list = <<1>>
    /\ call.exc = "RuntimeError"
    /\ call.steps = <<>>

\* the bind of such a bundle to a CPU of the last node goes on to the pins
C28_LastNodeAccepted ==
    /\ BindOfAllCpuDevice
    /\ uid = 0
    /\ call.cpu_list = <<CPU_COUNT - 1>>
    /\ call.exc = "None"
    /\ call.steps # <<>>


(***************************************************************************)
(* The thread pin protocol: liveness of the object.                        *)
(***************************************************************************)
\* C25: once a KThread has been found dead (by alive() or by
\* get_taskset()), it stays marked dead, and every later alive() on it
\* returns false, whatever the OS reports for its process id afterwards.
C25_DeadStaysDead ==
    [][\A k \in KtPids :
           ~kt[k]._alive =>
               /\ ~kt'[k]._alive
               /\ (call'.op = "alive" /\ call'.kt = k) => ~call'.readback]_vars

\* alive() answers false for a thread found dead whose process id the OS
\* has since given to a live process
C25_Witness ==
    /\ call.op = "alive" /\ ~call.readback
    /\ ~kt[call.kt]._alive
    /\ proc.th[call.kt].alive


(***************************************************************************)
(* The privileged operations: claims.                                      *)
(***************************************************************************)
PrivilegedOps ==
    {"pin", "procfs_write", "pin_cset", "pin_taskset", "chrt_ff", "chrt_oth",
     "create"}

\* C27: every privileged operation (IRQ.set_pin_to_cpu, IRQ.procfs_write,
\* KThread.pin_cset, pin_taskset, chrt_ff, chrt_oth, CPUSpec.create) called
\* without root raises PermissionError before any kernel write and any
\* external-tool call, and leaves every entity field and flag unchanged.
C27_NoRootNoEffect ==
    [][(uid # 0 /\ call'.op \in PrivilegedOps) =>
           /\ call'.exc = "PermissionError"
           /\ ~call'.wrote /\ ~call'.readback
           /\ NothingTouched]_vars

\* each of the operations has been refused to an ordinary user
C27_Refused(op) ==
    /\ uid # 0
    /\ call.op = op /\ call.exc = "PermissionError"

C27_Witness == C27_Refused("pin")

C27_WitnessOth == C27_Refused("chrt_oth")

C27_WitnessWrite == C27_Refused("procfs_write")

C27_WitnessCset == C27_Refused("pin_cset")

C27_WitnessTaskset == C27_Refused("pin_taskset")

C27_WitnessChrt == C27_Refused("chrt_ff")

C27_WitnessCreate == C27_Refused("create")

\* as root the same operations reach the kernel
C27_RootCreates ==
    /\ uid = 0 /\ call.op = "create" /\ call.rc = 0
    /\ "ghost" \in DOMAIN proc.csets


(***************************************************************************)
(* The refreshes: claims.                                                  *)
(***************************************************************************)
\* the last call was a refresh that returned, right after the same refresh
\* of the same entity had returned, with nothing changed in between
RefreshedTwice(op) ==
    /\ call.op = op /\ call.repeat /\ call.exc = "None"

\* C26: refresh_contents called twice in a row on an IRQ, or on a KThread,
\* while the kernel data is unchanged leaves the entity after the second
\* call as it was after the first: every stored field, the increments of
\* the thread's counters and its interval bookkeeping included.
C26_RefreshIdempotent ==
    /\ RefreshedTwice("irq_refresh") => irq[call.irq] = call.before
    /\ RefreshedTwice("kt_refresh") => kt[call.kt] = call.before

\* the half of C26 on the IRQ
C26_IrqRefreshIdempotent ==
    RefreshedTwice("irq_refresh") => irq[call.irq] = call.before

\* the second refresh of a thread that has run, the clock reading the same
\* both times: the increment of the run time falls to zero and the stored
\* interval changes
C26_SecondRefreshDiffers ==
    /\ RefreshedTwice("kt_refresh")
    /\ call.before._time_last_contents = call.time
    /\ call.before._runtime = kt[call.kt]._runtime
    /\ call.before._runtime_incr > 0
    /\ kt[call.kt]._runtime_incr = 0
    /\ kt[call.kt]._dt_last_contents # call.before._dt_last_contents

\* the second refresh of an IRQ whose counts and affinity had changed
\* before the first
C26_IrqRefreshedTwice ==
    /\ RefreshedTwice("irq_refresh")
    /\ irq[call.irq]._count > 0
    /\ irq[call.irq]._smp_affinity_list = <<1>>

====
